---------------------------- MODULE Spec2Model ----------------------------
(***************************************************************************)
(* Symbol layout of a symbol bucket (src/src/symbol/symbol_layout.ts):     *)
(* performSymbolLayout, addFeature, addSymbol, the collision feature       *)
(* builders and the per-text registry anchorIsTooClose.                    *)
(*                                                                         *)
(* Numbers are integers.  Coordinates, shaping extents and offsets are     *)
(* drawn from integer sets on which the code's arithmetic is exact; a      *)
(* rotation is a multiple of 90 degrees, for which sine and cosine are     *)
(* -1, 0 or 1.                                                             *)
(***************************************************************************)
EXTENDS Integers, Sequences, FiniteSets, TLC

VARIABLES
    pc,                     \* "idle" | "layout", or "call" | "returned" for a direct call
    layout,                 \* bucket.layers[0].layout: the layer's layout properties
    bucket,                 \* the SymbolBucket being built
    features,               \* bucket.features, as far as the feature loop has read them
    shapedTextOrientations, \* the local of the feature loop, after the last iteration
    shapeTextCalls,         \* horizontal shapeText calls made by the last iteration
    callArgs,               \* arguments of a direct call of a collision feature builder
    callRet,                \* what that call returned
    tile,                   \* the Tile handed to VectorTileSource.loadTile
    messages,               \* requests of VectorTileSource that await their response
    callbacks,              \* the callbacks passed to VectorTileSource.loadTile
    worker,                 \* a RasterTileWorkerSource and the loads it has started
    cache                   \* the tile request cache and the calls that work on it

\* The variables of the symbol layout, and those of the tile sources and the cache
layoutVars == <<pc, layout, bucket, features, shapedTextOrientations, shapeTextCalls,
                callArgs, callRet>>

sourceVars == <<tile, messages, callbacks, worker, cache>>

vars == <<pc, layout, bucket, features, shapedTextOrientations, shapeTextCalls,
          callArgs, callRet, tile, messages, callbacks, worker, cache>>

\* No tile is loading; a RasterTileWorkerSource as its constructor leaves it, with
\* no loadTile call made; no cache in use
NoTile == [state |-> "none"]

NoWorker == [loading |-> <<>>, objects |-> <<>>, loads |-> <<>>]

NoCache == [keys |-> <<>>, calls |-> <<>>]

SourcesIdle ==
    /\ tile = NoTile
    /\ messages = {}
    /\ callbacks = <<>>
    /\ worker = NoWorker
    /\ cache = NoCache

-----------------------------------------------------------------------------
(* JavaScript values *)

\* undefined and null are the empty tuple; a value that may be absent is the
\* one-element tuple of it (a pair or a 4-tuple of numbers stands for itself)
Undefined == <<>>
Null == <<>>
Some(v) == <<v>>
Val(o) == o[1]

Min2(a, b) == IF a <= b THEN a ELSE b
Max2(a, b) == IF a >= b THEN a ELSE b
Min4(a, b, c, d) == Min2(Min2(a, b), Min2(c, d))
Max4(a, b, c, d) == Max2(Max2(a, b), Max2(c, d))

\* !v for an index or a diameter that may be absent: undefined, null and 0 are falsy
Falsy(o) == o = Undefined \/ Val(o) = 0

-----------------------------------------------------------------------------
(* Program constants *)

EXTENT == 8192
ONE_EM == 24
SIZE_PACK_FACTOR == 128
MAX_GLYPH_ICON_SIZE == 255
MAX_PACKED_SIZE == MAX_GLYPH_ICON_SIZE * SIZE_PACK_FACTOR

-----------------------------------------------------------------------------
(* Bounds of the model *)

\* features read by one run of the feature loop
MaxFeatures == 2
\* vertices of one line of a geometry
MaxVertices == 4
\* the largest top or bottom of a shaping handed to a collision feature builder
MaxGlyphExtent == 6

-----------------------------------------------------------------------------
(* Points *)

Pt(x, y) == [x |-> x, y |-> y]

\* Point._rotateAround(angle, center) for angle = quarter * 90 degrees
QuarterCos(q) == CASE q % 4 = 0 -> 1 [] q % 4 = 1 -> 0 [] q % 4 = 2 -> -1 [] OTHER -> 0
QuarterSin(q) == CASE q % 4 = 0 -> 0 [] q % 4 = 1 -> 1 [] q % 4 = 2 -> 0 [] OTHER -> -1

RotateAround(p, degrees, center) ==
    LET q == degrees \div 90
        c == QuarterCos(q)
        s == QuarterSin(q)
    IN  Pt(center.x + c * (p.x - center.x) - s * (p.y - center.y),
           center.y + s * (p.x - center.x) + c * (p.y - center.y))

\* anchor.dist(other) < repeatDistance, with repeatDistance = minDistance / 2 >= 0
DistLessThanHalf(a, b, minDistance) ==
    4 * ((a.x - b.x) * (a.x - b.x) + (a.y - b.y) * (a.y - b.y)) < minDistance * minDistance

-----------------------------------------------------------------------------
(* Collision feature builders *)

\* The extents of a shaping after the icon scale and the collision padding
PaddedExtents(shaped, iconScaledSize) ==
    LET x1 == shaped.left \div iconScaledSize
        y1 == shaped.top \div iconScaledSize
        x2 == shaped.right \div iconScaledSize
        y2 == shaped.bottom \div iconScaledSize
        cp == shaped.collisionPadding
    IN  IF cp # Undefined
        THEN [x1 |-> x1 - cp[1], y1 |-> y1 - cp[2], x2 |-> x2 + cp[3], y2 |-> y2 + cp[4]]
        ELSE [x1 |-> x1, y1 |-> y1, x2 |-> x2, y2 |-> y2]

\* The axis-aligned envelope of four corners
Envelope(tl, tr, bl, br) ==
    [x1 |-> Min4(tl.x, tr.x, bl.x, br.x), y1 |-> Min4(tl.y, tr.y, bl.y, br.y),
     x2 |-> Max4(tl.x, tr.x, bl.x, br.x), y2 |-> Max4(tl.y, tr.y, bl.y, br.y)]

\* The centre of the rotation: the text offset, or the origin
RotateCenter(textOffset) ==
    IF textOffset # Null THEN Pt(textOffset[1], textOffset[2]) ELSE Pt(0, 0)

\* The envelope of the four corners of e rotated around the centre
RotatedEnvelope(e, rotate, center) ==
    Envelope(RotateAround(Pt(e.x1, e.y1), rotate, center),
             RotateAround(Pt(e.x2, e.y1), rotate, center),
             RotateAround(Pt(e.x1, e.y2), rotate, center),
             RotateAround(Pt(e.x2, e.y2), rotate, center))

\* A faulty BoxExtents: the corners are turned also when rotate is 0, and by a
\* quarter turn too many
BoxExtentsAlwaysRotated(shaped, rotate, textOffset, iconScaledSize) ==
    RotatedEnvelope(PaddedExtents(shaped, iconScaledSize), rotate + 90, RotateCenter(textOffset))

\* The extents of the box evaluateBoxCollisionFeature appends
BoxExtents(shaped, rotate, textOffset, iconScaledSize) ==
    IF rotate # 0
    THEN RotatedEnvelope(PaddedExtents(shaped, iconScaledSize), rotate, RotateCenter(textOffset))
    ELSE PaddedExtents(shaped, iconScaledSize)

\* collisionBoxArray.emplaceBack
CollisionBox(e, projectedAnchor, tileAnchor, padding, featureIndex) ==
    [projectedAnchorX |-> projectedAnchor.x, projectedAnchorY |-> projectedAnchor.y,
     tileAnchorX |-> tileAnchor.x, tileAnchorY |-> tileAnchor.y,
     x1 |-> e.x1, y1 |-> e.y1, x2 |-> e.x2, y2 |-> e.y2,
     padding |-> padding, featureIndex |-> featureIndex]

\* evaluateBoxCollisionFeature: the collision box array after the call; the index
\* it returns is the length of that array minus one
evaluateBoxCollisionFeature(collisionBoxArray, projectedAnchor, tileAnchor, featureIndex, shaped, padding, rotate, textOffset, iconScaledSize) ==
    Append(collisionBoxArray,
           CollisionBox(BoxExtents(shaped, rotate, textOffset, iconScaledSize),
                        projectedAnchor, tileAnchor, padding, featureIndex))

\* evaluateCircleCollisionFeature: the shaping as the call leaves it
CircleShapedAfter(shaped) ==
    IF shaped.collisionPadding # Undefined
    THEN [shaped EXCEPT !.top = @ - shaped.collisionPadding[2],
                        !.bottom = @ + shaped.collisionPadding[4]]
    ELSE shaped

\* A faulty return value: no floor of 10
CircleOfHeightNoFloor(height) == IF height > 0 THEN Some(height) ELSE Null

\* evaluateCircleCollisionFeature: the value returned for the height it computed
CircleOfHeight(height) == IF height > 0 THEN Some(Max2(10, height)) ELSE Null

HeightOf(shaped) == shaped.bottom - shaped.top

evaluateCircleCollisionFeature(shaped) == CircleOfHeight(HeightOf(CircleShapedAfter(shaped)))

-----------------------------------------------------------------------------
(* Direct calls of the collision feature builders on bounded arguments *)

\* Shapings by their top and bottom, with and without collision padding
CircleShapedInputs ==
    { [top |-> t, bottom |-> b, collisionPadding |-> cp] :
        t \in (-MaxGlyphExtent)..MaxGlyphExtent, b \in (-MaxGlyphExtent)..MaxGlyphExtent,
        cp \in {Undefined, <<0, 0, 0, 0>>, <<1, 2, 1, 3>>, <<0, -4, 0, -4>>} }

\* Shapings by their box, in multiples of the icon scales
BoxShapedInputs ==
    { [left |-> l, right |-> r, top |-> t, bottom |-> b, collisionPadding |-> cp] :
        l \in {-20, -4, 8}, r \in {4, 20}, t \in {-12, 0}, b \in {2, 2 * MaxGlyphExtent},
        cp \in {Undefined, <<2, 4, 6, 8>>} }

\* Rotations by quarter turns, around the origin or a text offset
BoxCallInputs ==
    { [name |-> "evaluateBoxCollisionFeature",
       shaped |-> s, padding |-> 2, rotate |-> rot, textOffset |-> off, iconScaledSize |-> k,
       anchor |-> [x |-> 3, y |-> 4]] :
        s \in BoxShapedInputs, rot \in {0, 90, 180, 270, -90},
        off \in {Null, <<0, 0>>, <<24, -12>>}, k \in {1, 2} }

-----------------------------------------------------------------------------
(* The layer's layout properties and the bucket *)

Placements ==
    {"point", "line", "line-center", "vertex", "first-vertex", "last-vertex",
     "first-last-vertex", "except-first-vertex", "except-last-vertex", "middle-vertex"}

VertexPlacements == Placements \ {"point", "line", "line-center"}

\* layout.get('symbol-placement').includes('line')
IncludesLine(placement) == placement \in {"line", "line-center"}

\* The layout of a layer whose properties are constants (not data-driven); the
\* text anchor is 'center' unless text-variable-anchor is set
BaseLayout ==
    [symbolPlacement |-> "point",
     textRotationAlignment |-> "auto", iconRotationAlignment |-> "auto",
     textVariableAnchor |-> Undefined, textJustify |-> "center", textAnchor |-> "center",
     textWritingModeHorizontal |-> TRUE,
     textRotate |-> 0, iconRotate |-> 0, textOffset |-> <<0, 0>>,
     symbolSpacing |-> 1, textPadding |-> 2, iconPadding |-> 2, iconTextFit |-> "none",
     textSizeKind |-> "constant", iconSizeKind |-> "constant"]

\* A bucket as its constructor leaves it
NewBucket(allowVerticalPlacement) ==
    [overscaling |-> 1, zoom |-> 14, allowVerticalPlacement |-> allowVerticalPlacement,
     tilePixelRatio |-> 0, compareText |-> <<>>,
     sdfIcons |-> Undefined, iconsNeedLinear |-> FALSE, iconsInText |-> FALSE,
     hasAnyIconTextFit |-> FALSE,
     symbolInstances |-> <<>>, collisionBoxArray |-> <<>>, lineVertexArray |-> <<>>,
     textPlacedSymbolArray |-> <<>>, iconPlacedSymbolArray |-> <<>>,
     textSizeData |-> [kind |-> "constant"], iconSizeData |-> [kind |-> "constant"],
     warnings |-> {}, threw |-> FALSE]

\* bucket.createArrays()
createArrays(b) ==
    [b EXCEPT !.symbolInstances = <<>>, !.collisionBoxArray = <<>>, !.lineVertexArray = <<>>,
              !.textPlacedSymbolArray = <<>>, !.iconPlacedSymbolArray = <<>>]

tilePixelRatioForSymbolSpacing(overscaleFactor, overscaledZ) ==
    LET factor == IF overscaledZ > 18 /\ overscaleFactor > 2
                  THEN overscaleFactor \div 2 ELSE overscaleFactor
    IN  Max2(EXTENT \div (512 * factor), 1)

-----------------------------------------------------------------------------
(* Texts, images and the shapers *)

\* Rendered texts: "A", "B" and "V" are one line, "M" and "W" hold a line break,
\* "V" and "W" are in a script that allows vertical writing, "?" has no glyph in
\* the glyph map
Texts == {"A", "B", "M", "V", "W", "?"}

TextLines(text) == IF text \in {"M", "W"} THEN 2 ELSE 1

allowsVerticalWritingMode(text) == text \in {"V", "W"}

\* murmur3 of a rendered text, as a numbering of the texts (the hash of '' is 0)
murmur3(text) ==
    CASE text = "" -> 0
      [] text = "A" -> 1
      [] text = "B" -> 2
      [] text = "M" -> 3
      [] text = "V" -> 4
      [] text = "W" -> 6
      [] OTHER -> 5

\* imageMap: the images of the style; "missing" is none of them
ImageMap == {"img", "sdf"}
ImageIsSdf(name) == name = "sdf"

\* shapeText: no Shaping for a text without glyphs; the box of a shaping is centred
\* on the text offset, one em wide, one em high per line (turned for vertical text)
shapeText(text, textAnchor, textJustify, textOffset, vertical) ==
    IF text = "?" THEN Undefined
    ELSE LET w == IF vertical THEN ONE_EM * TextLines(text) ELSE ONE_EM
             h == IF vertical THEN ONE_EM ELSE ONE_EM * TextLines(text)
         IN  Some([text |-> text,
                   left |-> textOffset[1] - w \div 2, right |-> textOffset[1] + w \div 2,
                   top |-> textOffset[2] - h \div 2, bottom |-> textOffset[2] + h \div 2,
                   positionedLines |-> TextLines(text), collisionPadding |-> Undefined,
                   justify |-> textJustify, vertical |-> vertical, iconsInText |-> FALSE])

shapeIcon(name) ==
    [image |-> name, left |-> -8, right |-> 8, top |-> -8, bottom |-> 8,
     collisionPadding |-> Undefined]

\* fitIconToText: the icon stretched over the box of the text, with the padding of
\* a stretched icon
fitIconToText(shapedIcon, shapedText) ==
    [image |-> shapedIcon.image, left |-> shapedText.left, right |-> shapedText.right,
     top |-> shapedText.top, bottom |-> shapedText.bottom, collisionPadding |-> <<1, 1, 1, 1>>]

getAnchorJustification(anchor) ==
    CASE anchor \in {"right", "top-right", "bottom-right"} -> "right"
      [] anchor \in {"left", "top-left", "bottom-left"} -> "left"
      [] OTHER -> "center"

-----------------------------------------------------------------------------
(* shapedTextOrientations.horizontal: an object, its keys in insertion order *)

HasKey(h, k) == \E i \in 1..Len(h) : h[i].key = k

\* h[k]: undefined for a key the object does not have
HGet(h, k) ==
    IF HasKey(h, k) THEN h[CHOOSE i \in 1..Len(h) : h[i].key = k].value ELSE Undefined

\* h[k] = v
HSet(h, k, v) ==
    IF HasKey(h, k)
    THEN [i \in 1..Len(h) |-> IF h[i].key = k THEN [key |-> k, value |-> v] ELSE h[i]]
    ELSE Append(h, [key |-> k, value |-> v])

\* Object.keys(h)
Keys(h) == [i \in 1..Len(h) |-> h[i].key]

getDefaultHorizontalShaping(h) == IF Len(h) > 0 THEN h[1].value ELSE Null

\* a || b for two values that may be absent
OrElse(a, b) == IF a # Undefined THEN a ELSE b

-----------------------------------------------------------------------------
(* Geometry and the geometry collaborators *)

\* new Anchor(x, y, 0, 0, segment)
Anchor(x, y, segment) == [x |-> x, y |-> y, segment |-> segment]

InRect(p, x1, y1, x2, y2) == p.x >= x1 /\ p.x <= x2 /\ p.y >= y1 /\ p.y <= y2

\* clipLine of one line, at its vertices: the maximal runs of vertices inside the
\* rectangle, in order (run is the run being collected)
RECURSIVE ClipOneLine(_, _, _, _, _, _, _)
ClipOneLine(line, i, run, x1, y1, x2, y2) ==
    IF i > Len(line) THEN (IF run = <<>> THEN <<>> ELSE <<run>>)
    ELSE IF InRect(line[i], x1, y1, x2, y2)
         THEN ClipOneLine(line, i + 1, Append(run, line[i]), x1, y1, x2, y2)
         ELSE (IF run = <<>> THEN <<>> ELSE <<run>>)
              \o ClipOneLine(line, i + 1, <<>>, x1, y1, x2, y2)

RECURSIVE clipLine(_, _, _, _, _)
clipLine(lines, x1, y1, x2, y2) ==
    IF lines = <<>> THEN <<>>
    ELSE ClipOneLine(Head(lines), 1, <<>>, x1, y1, x2, y2) \o clipLine(Tail(lines), x1, y1, x2, y2)

\* getAnchors: the anchors walked along one clipped line, taken at its vertices
getAnchors(line) == [i \in 1..Len(line) |-> Anchor(line[i].x, line[i].y, Some(i - 1))]

\* getCenterAnchor: the anchor at the middle of the line, none when the text would
\* bend more than text-max-angle there
getCenterAnchor(line, angleOk) ==
    IF angleOk
    THEN LET m == (Len(line) + 1) \div 2 IN Some(Anchor(line[m].x, line[m].y, Some(m - 1)))
    ELSE Undefined

\* Twice the signed area of a ring
RECURSIVE SignedArea2(_, _)
SignedArea2(ring, i) ==
    IF i > Len(ring) THEN 0
    ELSE LET p == ring[i]
             q == ring[IF i = Len(ring) THEN 1 ELSE i + 1]
         IN  (p.x * q.y - q.x * p.y) + SignedArea2(ring, i + 1)

\* classifyRings: a ring wound like the first ring is an exterior ring and opens a
\* polygon, a ring wound the other way is a hole of the polygon before it
RECURSIVE classifyRings(_, _, _)
classifyRings(rings, i, polygons) ==
    IF i > Len(rings) THEN polygons
    ELSE IF i = 1 \/ (SignedArea2(rings[i], 1) < 0) = (SignedArea2(rings[1], 1) < 0)
         THEN classifyRings(rings, i + 1, Append(polygons, <<rings[i]>>))
         ELSE classifyRings(rings, i + 1,
                  [polygons EXCEPT ![Len(polygons)] = Append(@, rings[i])])

SetMin(S) == CHOOSE m \in S : \A n \in S : m <= n
SetMax(S) == CHOOSE m \in S : \A n \in S : m >= n

\* findPoleOfInaccessibility: a point inside the polygon, here the centre of the
\* bounding box of its exterior ring
findPoleOfInaccessibility(polygon) ==
    LET ring == polygon[1]
        xs == {ring[i].x : i \in 1..Len(ring)}
        ys == {ring[i].y : i \in 1..Len(ring)}
    IN  Pt((SetMin(xs) + SetMax(xs)) \div 2, (SetMin(ys) + SetMax(ys)) \div 2)

-----------------------------------------------------------------------------
(* addSymbol: one label and icon placement.  A frame holds the bucket, the       *)
(* shapings (which evaluateCircleCollisionFeature changes in place) and the      *)
(* locals of the call.                                                           *)

\* bucket.addSymbols: the placed symbol it appends to the text or icon buffers
PlacedSymbol(anchor, featureIndex, vertical, lineStartIndex, lineLength, associatedIconIndex, sizeData) ==
    [anchorX |-> anchor.x, anchorY |-> anchor.y, featureIndex |-> featureIndex,
     vertical |-> vertical, lineStartIndex |-> lineStartIndex, lineLength |-> lineLength,
     associatedIconIndex |-> associatedIconIndex, sizeData |-> sizeData]

\* textSizeData, iconSizeData: null for a size that does not depend on the
\* feature, one packed size for kind 'source', two for kind 'composite' (the
\* evaluations at the two zoom stops); sizes.textScaleFactor and
\* sizes.iconScaleFactor are 1
PackedSizeData(kind, size) ==
    IF kind = "source" THEN <<SIZE_PACK_FACTOR * size[1]>>
    ELSE IF kind = "composite" THEN <<SIZE_PACK_FACTOR * size[1], SIZE_PACK_FACTOR * size[2]>>
    ELSE Null

\* warnOnce for a packed size above MAX_PACKED_SIZE
SizeWarnings(b, sizeData, property) ==
    IF \E k \in 1..Len(sizeData) : sizeData[k] > MAX_PACKED_SIZE
    THEN [b EXCEPT !.warnings = @ \cup {property}]
    ELSE b

\* The locals of addSymbol after bucket.addToLineVertexArray(anchor, line), which
\* stores the vertices of the line for an anchor that lies on a segment
NewFrame(st, anchor, line) ==
    LET onLine == anchor.segment # Undefined
    IN  [bucket |-> [st.bucket EXCEPT !.lineVertexArray = IF onLine THEN @ \o line ELSE @],
         S |-> st.S, verticallyShapedIcon |-> st.verticallyShapedIcon,
         lineStartIndex |-> Len(st.bucket.lineVertexArray),
         lineLength |-> IF onLine THEN Len(line) ELSE 0,
         textBoxIndex |-> Undefined, iconBoxIndex |-> Undefined,
         verticalTextBoxIndex |-> Undefined, verticalIconBoxIndex |-> Undefined,
         textCircle |-> Undefined, verticalTextCircle |-> Undefined,
         verticalIconCircle |-> Undefined,
         placedIconSymbolIndex |-> -1, verticalPlacedIconSymbolIndex |-> -1,
         placedTextSymbolIndices |-> <<>>, key |-> murmur3("")]

\* A faulty record of an appended box: the length of the store, not the index of
\* the box
WithBoxPastEnd(fr, boxes, category) ==
    LET fr1 == [fr EXCEPT !.bucket.collisionBoxArray = boxes]
        index == Some(Len(boxes))
    IN  CASE category = "text" -> [fr1 EXCEPT !.textBoxIndex = index]
          [] category = "icon" -> [fr1 EXCEPT !.iconBoxIndex = index]
          [] category = "verticalText" -> [fr1 EXCEPT !.verticalTextBoxIndex = index]
          [] OTHER -> [fr1 EXCEPT !.verticalIconBoxIndex = index]

\* A frame after a box was appended for one of the four categories
WithBox(fr, boxes, category) ==
    LET fr1 == [fr EXCEPT !.bucket.collisionBoxArray = boxes]
        index == Some(Len(boxes) - 1)
    IN  CASE category = "text" -> [fr1 EXCEPT !.textBoxIndex = index]
          [] category = "icon" -> [fr1 EXCEPT !.iconBoxIndex = index]
          [] category = "verticalText" -> [fr1 EXCEPT !.verticalTextBoxIndex = index]
          [] OTHER -> [fr1 EXCEPT !.verticalIconBoxIndex = index]

VerticalIconBox(fr, anchor, ctx) ==
    IF fr.verticallyShapedIcon # Undefined
    THEN WithBox(fr, evaluateBoxCollisionFeature(fr.bucket.collisionBoxArray, anchor, anchor, ctx.feature.index, Val(fr.verticallyShapedIcon), ctx.iconPadding, layout.textRotate + 90, Null, 1), "verticalIcon")
    ELSE fr

VerticalIconCircle(fr) ==
    IF fr.verticallyShapedIcon # Undefined
    THEN [fr EXCEPT
            !.verticalIconCircle = evaluateCircleCollisionFeature(Val(fr.verticallyShapedIcon)),
            !.verticallyShapedIcon = Some(CircleShapedAfter(Val(fr.verticallyShapedIcon)))]
    ELSE fr

\* The collision features of the vertical shapings
AddVerticalCollision(fr, anchor, ctx) ==
    IF ~(fr.bucket.allowVerticalPlacement /\ fr.S.vertical # Undefined) THEN fr
    ELSE IF ctx.textAlongLine
    THEN VerticalIconCircle(
             [fr EXCEPT
                !.verticalTextCircle = evaluateCircleCollisionFeature(Val(fr.S.vertical)),
                !.S.vertical = Some(CircleShapedAfter(Val(fr.S.vertical)))])
    ELSE VerticalIconBox(
             WithBox(fr, evaluateBoxCollisionFeature(fr.bucket.collisionBoxArray, anchor, anchor, ctx.feature.index, Val(fr.S.vertical), ctx.textPadding, layout.textRotate + 90, ctx.textOffset, 1), "verticalText"),
             anchor, ctx)

\* The placed symbols of the icon and of the vertical icon
AddIconPlacedSymbols(fr, anchor, ctx) ==
    LET iconSizeData == PackedSizeData(fr.bucket.iconSizeData.kind, ctx.feature.iconSize)
        icon == PlacedSymbol(anchor, ctx.feature.index, FALSE, fr.lineStartIndex, fr.lineLength, -1, iconSizeData)
        vertical == PlacedSymbol(anchor, ctx.feature.index, TRUE, fr.lineStartIndex, fr.lineLength, -1, iconSizeData)
        n == Len(fr.bucket.iconPlacedSymbolArray)
        b == SizeWarnings(fr.bucket, iconSizeData, "icon-size")
    IN  IF fr.verticallyShapedIcon # Undefined
        THEN [fr EXCEPT !.bucket = [b EXCEPT !.iconPlacedSymbolArray = @ \o <<icon, vertical>>],
                        !.placedIconSymbolIndex = n,
                        !.verticalPlacedIconSymbolIndex = n + 1]
        ELSE [fr EXCEPT !.bucket = [b EXCEPT !.iconPlacedSymbolArray = Append(@, icon)],
                        !.placedIconSymbolIndex = n]

\* The icon is placed first, so that text can refer to its placed symbol
AddIcon(fr, anchor, ctx) ==
    IF ctx.shapedIcon = Undefined THEN fr
    ELSE AddIconPlacedSymbols(
             WithBox(fr, evaluateBoxCollisionFeature(fr.bucket.collisionBoxArray, anchor, anchor, ctx.feature.index, Val(ctx.shapedIcon), ctx.iconPadding, layout.iconRotate, Null, 1), "icon"),
             anchor, ctx)

RECURSIVE SetAll(_, _, _, _)
SetAll(map, keys, i, v) ==
    IF i > Len(keys) THEN map ELSE SetAll(HSet(map, keys[i], v), keys, i + 1, v)

\* A faulty addTextVertices: only the first placement type gets the index
addTextVerticesFirstTypeOnly(fr, anchor, ctx, vertical, placementTypes, placedIconIndex) ==
    LET textSizeData == PackedSizeData(fr.bucket.textSizeData.kind, ctx.feature.textSize)
        b == SizeWarnings(fr.bucket, textSizeData, "text-size")
    IN  [fr EXCEPT
            !.bucket = [b EXCEPT !.textPlacedSymbolArray =
                Append(@, PlacedSymbol(anchor, ctx.feature.index, vertical, fr.lineStartIndex, fr.lineLength, placedIconIndex, textSizeData))],
            !.placedTextSymbolIndices =
                SetAll(@, <<placementTypes[1]>>, 1, Some(Len(fr.bucket.textPlacedSymbolArray)))]

\* addTextVertices: one placed text symbol, whose index every placement type gets
addTextVertices(fr, anchor, ctx, vertical, placementTypes, placedIconIndex) ==
    LET textSizeData == PackedSizeData(fr.bucket.textSizeData.kind, ctx.feature.textSize)
        b == SizeWarnings(fr.bucket, textSizeData, "text-size")
    IN  [fr EXCEPT
            !.bucket = [b EXCEPT !.textPlacedSymbolArray =
                Append(@, PlacedSymbol(anchor, ctx.feature.index, vertical, fr.lineStartIndex, fr.lineLength, placedIconIndex, textSizeData))],
            !.placedTextSymbolIndices =
                SetAll(@, placementTypes, 1, Some(Len(fr.bucket.textPlacedSymbolArray)))]

\* The collision feature of the text, evaluated while textBoxIndex is falsy
TextCollision(fr, i, anchor, ctx) ==
    IF ~Falsy(fr.textBoxIndex) THEN fr
    ELSE IF ctx.textAlongLine
    THEN [fr EXCEPT
            !.key = murmur3(Val(fr.S.horizontal[i].value).text),
            !.textCircle = evaluateCircleCollisionFeature(Val(fr.S.horizontal[i].value)),
            !.S.horizontal[i].value = Some(CircleShapedAfter(Val(@)))]
    ELSE WithBox([fr EXCEPT !.key = murmur3(Val(fr.S.horizontal[i].value).text)],
                 evaluateBoxCollisionFeature(fr.bucket.collisionBoxArray, anchor, anchor, ctx.feature.index, Val(fr.S.horizontal[i].value), ctx.textPadding, layout.textRotate, ctx.textOffset, 1),
                 "text")

SingleLine(fr, i) == Val(fr.S.horizontal[i].value).positionedLines = 1

HorizontalTextVertices(fr, i, anchor, ctx) ==
    addTextVertices(fr, anchor, ctx, FALSE,
                    IF SingleLine(fr, i) THEN Keys(fr.S.horizontal)
                    ELSE <<fr.S.horizontal[i].key>>,
                    fr.placedIconSymbolIndex)

\* The loop over the justifications of shapedTextOrientations.horizontal, from
\* entry i; it ends after a shaping of a single line
RECURSIVE AddHorizontalText(_, _, _, _)
NextJustification(fr, i, anchor, ctx) ==
    IF SingleLine(fr, i) THEN fr ELSE AddHorizontalText(fr, i + 1, anchor, ctx)

AddHorizontalText(fr, i, anchor, ctx) ==
    IF i > Len(fr.S.horizontal) THEN fr
    ELSE IF fr.S.horizontal[i].value = Undefined
    THEN [fr EXCEPT !.bucket.threw = TRUE]  \* a property of undefined is read
    ELSE NextJustification(
             HorizontalTextVertices(TextCollision(fr, i, anchor, ctx), i, anchor, ctx),
             i, anchor, ctx)

\* A faulty vertical text: it refers to the horizontal icon
AddVerticalTextOfHorizontalIcon(fr, anchor, ctx) ==
    IF fr.S.vertical # Undefined /\ ~fr.bucket.threw
    THEN addTextVertices(fr, anchor, ctx, TRUE, <<"vertical">>, fr.placedIconSymbolIndex)
    ELSE fr

AddVerticalText(fr, anchor, ctx) ==
    IF fr.S.vertical # Undefined /\ ~fr.bucket.threw
    THEN addTextVertices(fr, anchor, ctx, TRUE, <<"vertical">>, fr.verticalPlacedIconSymbolIndex)
    ELSE fr

\* A faulty choice of the circle: the latest one computed, not the tallest
getCollisionCircleHeightLatest(diameter, prevHeight) ==
    IF ~Falsy(diameter) THEN Val(diameter) ELSE prevHeight

getCollisionCircleHeight(diameter, prevHeight) ==
    IF ~Falsy(diameter) THEN Max2(Val(diameter), prevHeight) ELSE prevHeight

\* placedTextSymbolIndices[k] >= 0 ? placedTextSymbolIndices[k] : -1
PlacedTextIndex(indices, k) ==
    LET o == HGet(indices, k) IN IF o # Undefined /\ Val(o) >= 0 THEN Val(o) ELSE -1

\* The Symbol Instance addSymbol appends
SymbolInstance(fr, anchor, ctx) ==
    LET len == Len(fr.bucket.collisionBoxArray)
        diameter == getCollisionCircleHeight(fr.verticalIconCircle,
                        getCollisionCircleHeight(fr.verticalTextCircle,
                            getCollisionCircleHeight(fr.textCircle, -1)))
    IN  [anchorX |-> anchor.x, anchorY |-> anchor.y,
         rightJustifiedTextSymbolIndex |-> PlacedTextIndex(fr.placedTextSymbolIndices, "right"),
         centerJustifiedTextSymbolIndex |-> PlacedTextIndex(fr.placedTextSymbolIndices, "center"),
         leftJustifiedTextSymbolIndex |-> PlacedTextIndex(fr.placedTextSymbolIndices, "left"),
         verticalPlacedTextSymbolIndex |-> PlacedTextIndex(fr.placedTextSymbolIndices, "vertical"),
         placedIconSymbolIndex |-> fr.placedIconSymbolIndex,
         verticalPlacedIconSymbolIndex |-> fr.verticalPlacedIconSymbolIndex,
         key |-> fr.key,
         textBoxStartIndex |-> IF fr.textBoxIndex # Undefined THEN Val(fr.textBoxIndex) ELSE len,
         textBoxEndIndex |-> IF fr.textBoxIndex # Undefined THEN Val(fr.textBoxIndex) + 1 ELSE len,
         verticalTextBoxStartIndex |->
             IF fr.verticalTextBoxIndex # Undefined THEN Val(fr.verticalTextBoxIndex) ELSE len,
         verticalTextBoxEndIndex |->
             IF fr.verticalTextBoxIndex # Undefined THEN Val(fr.verticalTextBoxIndex) + 1 ELSE len,
         iconBoxStartIndex |-> IF fr.iconBoxIndex # Undefined THEN Val(fr.iconBoxIndex) ELSE len,
         iconBoxEndIndex |-> IF fr.iconBoxIndex # Undefined THEN Val(fr.iconBoxIndex) + 1 ELSE len,
         verticalIconBoxStartIndex |->
             IF ~Falsy(fr.verticalIconBoxIndex) THEN Val(fr.verticalIconBoxIndex) ELSE len,
         verticalIconBoxEndIndex |->
             IF ~Falsy(fr.verticalIconBoxIndex) THEN Val(fr.verticalIconBoxIndex) + 1 ELSE len,
         featureIndex |-> ctx.feature.index,
         useRuntimeCollisionCircles |-> IF diameter > -1 THEN 1 ELSE 0,
         collisionCircleDiameter |-> diameter,
         hasIconTextFit |-> IF layout.iconTextFit # "none" THEN 1 ELSE 0]

\* symbolInstances.emplaceBack, and what addSymbol leaves behind
EmitSymbolInstance(fr, anchor, ctx) ==
    [bucket |-> IF fr.bucket.threw THEN fr.bucket
                ELSE [fr.bucket EXCEPT
                        !.symbolInstances = Append(@, SymbolInstance(fr, anchor, ctx))],
     S |-> fr.S, verticallyShapedIcon |-> fr.verticallyShapedIcon]

addSymbol(st, anchor, line, ctx) ==
    EmitSymbolInstance(
        AddVerticalText(
            AddHorizontalText(
                AddIcon(AddVerticalCollision(NewFrame(st, anchor, line), anchor, ctx),
                        anchor, ctx),
                1, anchor, ctx),
            anchor, ctx),
        anchor, ctx)

-----------------------------------------------------------------------------
(* addFeature: the anchors of a feature, and a symbol instance for each          *)

\* A faulty anchorIsTooClose: it looks at the anchor registered last only
anchorIsTooCloseLatest(compareText, text, twiceRepeatDistance, anchor) ==
    LET known == HasKey(compareText, text)
        otherAnchors == IF known THEN HGet(compareText, text) ELSE <<>>
        tooClose == Len(otherAnchors) > 0
                    /\ DistLessThanHalf(anchor, otherAnchors[Len(otherAnchors)], twiceRepeatDistance)
    IN  [tooClose |-> tooClose,
         compareText |-> IF tooClose THEN compareText
                         ELSE HSet(compareText, text, Append(otherAnchors, anchor))]

\* anchorIsTooClose, with twiceRepeatDistance = 2 * repeatDistance: whether the
\* anchor is within repeatDistance of an anchor registered for the text, and the
\* registry as the call leaves it
anchorIsTooClose(compareText, text, twiceRepeatDistance, anchor) ==
    LET known == HasKey(compareText, text)
        otherAnchors == IF known THEN HGet(compareText, text) ELSE <<>>
        tooClose == \E k \in 1..Len(otherAnchors) :
                        DistLessThanHalf(anchor, otherAnchors[k], twiceRepeatDistance)
    IN  [tooClose |-> tooClose,
         compareText |-> IF tooClose THEN compareText
                         ELSE HSet(compareText, text, Append(otherAnchors, anchor))]

\* A faulty addSymbolAtAnchor: it tests x only
addSymbolAtAnchorNoYCheck(st, line, anchor, ctx) ==
    IF anchor.x < 0 \/ anchor.x >= EXTENT THEN st ELSE addSymbol(st, anchor, line, ctx)

\* A faulty addSymbolAtAnchor: it moves the anchor into the tile
addSymbolAtAnchorClamped(st, line, anchor, ctx) ==
    addSymbol(st, [anchor EXCEPT !.x = Max2(0, Min2(EXTENT - 1, @)),
                                 !.y = Max2(0, Min2(EXTENT - 1, @))], line, ctx)

\* addSymbolAtAnchor: nothing for an anchor outside the tile
addSymbolAtAnchor(st, line, anchor, ctx) ==
    IF anchor.x < 0 \/ anchor.x >= EXTENT \/ anchor.y < 0 \/ anchor.y >= EXTENT
    THEN st
    ELSE addSymbol(st, anchor, line, ctx)

VertexCandidate(line, i) == [line |-> line, anchor |-> Anchor(line[i].x, line[i].y, Undefined)]

\* A faulty addSymbolAtAnchorFromLine: the placements that leave vertices out take
\* them all, 'last-vertex' is one short, 'first-last-vertex' starts at the end
addSymbolAtAnchorFromLineInclusive(line, symbolPlacement) ==
    LET l == Len(line)
    IN  IF symbolPlacement \in {"vertex", "middle-vertex", "except-first-vertex", "except-last-vertex"}
        THEN [i \in 1..l |-> VertexCandidate(line, i)]
        ELSE IF symbolPlacement = "last-vertex" /\ l > 1
        THEN <<VertexCandidate(line, l - 1)>>
        ELSE IF symbolPlacement = "first-last-vertex" /\ l > 1
        THEN <<VertexCandidate(line, l), VertexCandidate(line, 1)>>
        ELSE <<VertexCandidate(line, 1)>>

\* addSymbolAtAnchorFromLine: the anchors it hands to addSymbolAtAnchor, in order
addSymbolAtAnchorFromLine(line, symbolPlacement) ==
    LET l == Len(line)
    IN  IF symbolPlacement = "vertex"
        THEN [i \in 1..l |-> VertexCandidate(line, i)]
        ELSE IF symbolPlacement = "first-vertex"
        THEN <<VertexCandidate(line, 1)>>
        ELSE IF symbolPlacement = "last-vertex" /\ l > 1
        THEN <<VertexCandidate(line, l)>>
        ELSE IF symbolPlacement = "first-last-vertex"
        THEN IF l > 1 THEN <<VertexCandidate(line, 1), VertexCandidate(line, l)>>
                      ELSE <<VertexCandidate(line, 1)>>
        ELSE IF symbolPlacement = "except-first-vertex" /\ l > 1
        THEN [i \in 1..(l - 1) |-> VertexCandidate(line, i + 1)]
        ELSE IF symbolPlacement = "except-last-vertex" /\ l > 1
        THEN [i \in 1..(l - 1) |-> VertexCandidate(line, i)]
        ELSE IF symbolPlacement = "middle-vertex" /\ l > 2
        THEN [i \in 1..(l - 2) |-> VertexCandidate(line, i + 1)]
        ELSE <<VertexCandidate(line, 1)>>

RECURSIVE Flatten(_)
Flatten(seqs) == IF seqs = <<>> THEN <<>> ELSE Head(seqs) \o Flatten(Tail(seqs))

\* A faulty choice of the anchors of a polygon: its exterior ring is treated as a
\* line under placement 'point' too
PolygonCandidatesFirstVertex(polygon, symbolPlacement) ==
    addSymbolAtAnchorFromLine(polygon[1], symbolPlacement)

PoleAnchor(poi) == Anchor(poi.x, poi.y, Undefined)

\* The anchors of one polygon of a Polygon feature: its pole of inaccessibility
\* under placement 'point', else the vertices of its exterior ring
PolygonCandidates(polygon, symbolPlacement) ==
    IF symbolPlacement = "point"
    THEN <<[line |-> polygon[1], anchor |-> PoleAnchor(findPoleOfInaccessibility(polygon))]>>
    ELSE addSymbolAtAnchorFromLine(polygon[1], symbolPlacement)

\* A faulty choice of the anchor of a line under 'line-center': a line of one
\* point is not ignored
CenterCandidatesAnyLength(line, angleOk) ==
    IF getCenterAnchor(line, angleOk) # Undefined
    THEN <<[line |-> line, anchor |-> Val(getCenterAnchor(line, angleOk))]>>
    ELSE <<>>

\* The anchor of one line under placement 'line-center': none for a line of one
\* point, none when getCenterAnchor returns none
CenterCandidates(line, angleOk) ==
    IF Len(line) > 1 /\ getCenterAnchor(line, angleOk) # Undefined
    THEN <<[line |-> line, anchor |-> Val(getCenterAnchor(line, angleOk))]>>
    ELSE <<>>

\* The rectangle handed to clipLine under placement 'line'
ClipRectangle == [x1 |-> 0, y1 |-> 0, x2 |-> EXTENT, y2 |-> EXTENT]

\* The anchors addFeature generates for a feature, with the line each belongs to,
\* in the order it generates them
Candidates(f, symbolPlacement) ==
    IF symbolPlacement = "line"
    THEN LET lines == clipLine(f.geometry, ClipRectangle.x1, ClipRectangle.y1,
                               ClipRectangle.x2, ClipRectangle.y2)
         IN  Flatten([n \in 1..Len(lines) |->
                 LET anchors == getAnchors(lines[n])
                 IN  [k \in 1..Len(anchors) |-> [line |-> lines[n], anchor |-> anchors[k]]]])
    ELSE IF symbolPlacement = "line-center"
    THEN Flatten([n \in 1..Len(f.geometry) |-> CenterCandidates(f.geometry[n], f.angleOk)])
    ELSE IF f.type = "Polygon"
    THEN LET polygons == classifyRings(f.geometry, 1, <<>>)
         IN  Flatten([n \in 1..Len(polygons) |-> PolygonCandidates(polygons[n], symbolPlacement)])
    ELSE IF f.type = "LineString"
    THEN Flatten([n \in 1..Len(f.geometry) |->
             addSymbolAtAnchorFromLine(f.geometry[n], symbolPlacement)])
    ELSE IF f.type = "Point"
    THEN Flatten([n \in 1..Len(f.geometry) |->
             [k \in 1..Len(f.geometry[n]) |->
                 [line |-> <<f.geometry[n][k]>>,
                  anchor |-> Anchor(f.geometry[n][k].x, f.geometry[n][k].y, Undefined)]]])
    ELSE <<>>

\* After the registry was asked: no symbol for an anchor that is too close
AfterRegistry(st, r, c, ctx) ==
    IF r.tooClose
    THEN [st EXCEPT !.bucket.compareText = r.compareText]
    ELSE addSymbolAtAnchor([st EXCEPT !.bucket.compareText = r.compareText], c.line, c.anchor, ctx)

\* A faulty AddCandidate: the registry is asked under every placement
AddCandidateAnyPlacement(st, c, ctx) ==
    AfterRegistry(st,
        IF ctx.defaultShaping # Null
        THEN anchorIsTooClose(st.bucket.compareText, Val(ctx.defaultShaping).text, ctx.symbolMinDistance, c.anchor)
        ELSE [tooClose |-> FALSE, compareText |-> st.bucket.compareText],
        c, ctx)

\* One anchor of the feature: under placement 'line' a feature with text asks the
\* registry first
AddCandidate(st, c, ctx) ==
    AfterRegistry(st,
        IF layout.symbolPlacement = "line" /\ ctx.defaultShaping # Null
        THEN anchorIsTooClose(st.bucket.compareText, Val(ctx.defaultShaping).text, ctx.symbolMinDistance, c.anchor)
        ELSE [tooClose |-> FALSE, compareText |-> st.bucket.compareText],
        c, ctx)

\* A faulty AddCandidates: the anchors of the feature are taken last first
RECURSIVE AddCandidatesLastFirst(_, _, _, _)
AddCandidatesLastFirst(st, cands, i, ctx) ==
    IF i > Len(cands) \/ st.bucket.threw THEN st
    ELSE AddCandidatesLastFirst(AddCandidate(st, cands[Len(cands) + 1 - i], ctx), cands, i + 1, ctx)

RECURSIVE AddCandidates(_, _, _, _)
AddCandidates(st, cands, i, ctx) ==
    IF i > Len(cands) \/ st.bucket.threw THEN st
    ELSE AddCandidates(AddCandidate(st, cands[i], ctx), cands, i + 1, ctx)

\* addFeature: the bucket and the shapings after the anchors of the feature
addFeature(b, f, S, shapedIcon0, textOffset) ==
    LET defaultShaping == OrElse(getDefaultHorizontalShaping(S.horizontal), S.vertical)
        hasIconTextFit == layout.iconTextFit # "none"
        b1 == IF b.hasAnyIconTextFit = FALSE /\ hasIconTextFit
              THEN [b EXCEPT !.hasAnyIconTextFit = TRUE] ELSE b
        fit == shapedIcon0 # Undefined /\ hasIconTextFit
        verticallyShapedIcon ==
            IF fit /\ b.allowVerticalPlacement /\ S.vertical # Undefined
            THEN Some(fitIconToText(Val(shapedIcon0), Val(S.vertical))) ELSE Undefined
        shapedIcon ==
            IF fit /\ defaultShaping # Null
            THEN Some(fitIconToText(Val(shapedIcon0), Val(defaultShaping))) ELSE shapedIcon0
        ctx == [feature |-> f, shapedIcon |-> shapedIcon, textOffset |-> textOffset,
                defaultShaping |-> defaultShaping,
                symbolMinDistance |->
                    tilePixelRatioForSymbolSpacing(b.overscaling, b.zoom) * layout.symbolSpacing,
                textPadding |-> layout.textPadding * b.tilePixelRatio,
                iconPadding |-> layout.iconPadding * b.tilePixelRatio,
                textAlongLine |-> layout.textRotationAlignment = "map"
                                  /\ IncludesLine(layout.symbolPlacement),
                iconAlongLine |-> layout.iconRotationAlignment = "map"
                                  /\ IncludesLine(layout.symbolPlacement)]
    IN  AddCandidates([bucket |-> b1, S |-> S, verticallyShapedIcon |-> verticallyShapedIcon],
                      Candidates(f, layout.symbolPlacement), 1, ctx)

-----------------------------------------------------------------------------
(* performSymbolLayout: the shapings of a feature                                *)

\* The loop over the justifications of a text-variable-anchor layer, from entry i;
\* sh holds shapedTextOrientations.horizontal, singleLine and the number of
\* shapeText calls made
RECURSIVE ShapeJustifications(_, _, _, _, _)
ShapeJustifications(justifications, i, sh, text, textOffset) ==
    IF i > Len(justifications) THEN sh
    ELSE
    LET justification == justifications[i]
        shaping == shapeText(text, "center", justification, textOffset, FALSE)
        next ==
            IF HGet(sh.horizontal, justification) # Undefined THEN sh
            ELSE IF sh.singleLine
            THEN [sh EXCEPT !.horizontal = HSet(@, justification, HGet(sh.horizontal, "0"))]
            ELSE IF shaping # Undefined
            THEN [horizontal |-> HSet(sh.horizontal, justification, shaping),
                  singleLine |-> Val(shaping).positionedLines = 1,
                  calls |-> sh.calls + 1]
            ELSE [sh EXCEPT !.calls = @ + 1]
    IN  ShapeJustifications(justifications, i + 1, next, text, textOffset)

\* addVerticalShapingIfNeeded
VerticalShaping(b, text, textJustify, textOffset) ==
    IF b.allowVerticalPlacement /\ allowsVerticalWritingMode(text)
    THEN shapeText(text, layout.textAnchor, textJustify, textOffset, TRUE)
    ELSE Undefined

\* shapedTextOrientations of a feature, with the number of horizontal shapeText calls
ShapeFeatureText(b, f, textOffset) ==
    LET text == Val(f.text)
        textAlongLine == layout.textRotationAlignment = "map"
                         /\ IncludesLine(layout.symbolPlacement)
        textJustify == IF textAlongLine THEN "center" ELSE layout.textJustify
        isPointPlacement == layout.symbolPlacement = "point"
        variableTextAnchor == layout.textVariableAnchor
        justifications ==
            IF textJustify = "auto"
            THEN [i \in 1..Len(variableTextAnchor) |->
                     getAnchorJustification(variableTextAnchor[i])]
            ELSE <<textJustify>>
        sh == ShapeJustifications(justifications, 1,
                  [horizontal |-> <<>>, singleLine |-> FALSE, calls |-> 0], text, textOffset)
        fixedJustify == IF textJustify = "auto"
                        THEN getAnchorJustification(layout.textAnchor) ELSE textJustify
        horizontalWanted == isPointPlacement \/ layout.textWritingModeHorizontal
                            \/ ~allowsVerticalWritingMode(text)
        shaping == shapeText(text, layout.textAnchor, fixedJustify, textOffset, FALSE)
    IN  IF f.text = Undefined
        THEN [horizontal |-> <<>>, vertical |-> Undefined, calls |-> 0]
        ELSE IF ~textAlongLine /\ variableTextAnchor # Undefined
        THEN [horizontal |-> sh.horizontal,
              vertical |-> VerticalShaping(b, text, "left", textOffset),
              calls |-> sh.calls]
        ELSE [horizontal |-> IF horizontalWanted /\ shaping # Undefined
                             THEN <<[key |-> fixedJustify, value |-> shaping]>> ELSE <<>>,
              vertical |-> VerticalShaping(b, text,
                               IF isPointPlacement THEN "left" ELSE fixedJustify, textOffset),
              calls |-> IF horizontalWanted THEN 1 ELSE 0]

\* The text offset of a feature, in glyph units
TextOffsetOf(f) ==
    IF f.text # Undefined /\ layout.textVariableAnchor = Undefined
    THEN <<layout.textOffset[1] * ONE_EM, layout.textOffset[2] * ONE_EM>>
    ELSE <<0, 0>>

HasImage(f) == f.icon # Undefined /\ Val(f.icon) \in ImageMap

ShapedIconOf(f) == IF HasImage(f) THEN Some(shapeIcon(Val(f.icon))) ELSE Undefined

\* A faulty record of the kind of the icons: the latest image found decides
IconBucketLatest(b, f) ==
    IF ~HasImage(f) THEN b
    ELSE [b EXCEPT
            !.sdfIcons = Some(ImageIsSdf(Val(f.icon))),
            !.warnings = IF b.sdfIcons # Undefined /\ b.sdfIcons # Some(ImageIsSdf(Val(f.icon)))
                         THEN @ \cup {"Cannot mix SDF and non-SDF icons in one buffer"}
                         ELSE @,
            !.iconsNeedLinear = @ \/ layout.iconRotate # 0]

\* The bucket after the icon of the feature was shaped: the first image found
\* decides bucket.sdfIcons, a later image of the other kind raises a warning
IconBucket(b, f) ==
    IF ~HasImage(f) THEN b
    ELSE [b EXCEPT
            !.sdfIcons = IF @ = Undefined THEN Some(ImageIsSdf(Val(f.icon))) ELSE @,
            !.warnings = IF b.sdfIcons # Undefined /\ b.sdfIcons # Some(ImageIsSdf(Val(f.icon)))
                         THEN @ \cup {"Cannot mix SDF and non-SDF icons in one buffer"}
                         ELSE @,
            !.iconsNeedLinear = @ \/ layout.iconRotate # 0]

WithCalls(after, calls) == [bucket |-> after.bucket, S |-> after.S, calls |-> calls]

\* The end of an iteration: addFeature for a feature that has a text or an icon
FeatureOutcome(b1, f, shaped, shapedIcon, textOffset) ==
    LET S == [horizontal |-> shaped.horizontal, vertical |-> shaped.vertical]
        shapedText == OrElse(getDefaultHorizontalShaping(shaped.horizontal), shaped.vertical)
        b2 == IF ~b1.iconsInText
              THEN [b1 EXCEPT !.iconsInText =
                        IF shapedText # Undefined THEN Val(shapedText).iconsInText ELSE FALSE]
              ELSE b1
    IN  IF shapedText # Undefined \/ shapedIcon # Undefined
        THEN WithCalls(addFeature(b2, f, S, shapedIcon, textOffset), shaped.calls)
        ELSE [bucket |-> b2, S |-> S, calls |-> shaped.calls]

\* One iteration of the feature loop: the bucket after it, the shapings of the
\* feature and the number of horizontal shapeText calls
LayoutFeature(b, f) ==
    FeatureOutcome(IconBucket(b, f), f, ShapeFeatureText(b, f, TextOffsetOf(f)),
                   ShapedIconOf(f), TextOffsetOf(f))

-----------------------------------------------------------------------------
(* The features a run reads *)

\* A polyline that leaves the tile: four vertices inside [0, EXTENT), one above
\* the tile and one to the right of it
BaseLine == <<Pt(0, 0), Pt(3, 4), Pt(8, 0), Pt(8191, 8191), Pt(4, -1), Pt(8192, 8)>>

Prefix(n) == SubSeq(BaseLine, 1, n)
Suffix(n) == SubSeq(BaseLine, Len(BaseLine) + 1 - n, Len(BaseLine))

\* The lines of the geometries: the beginnings of the polyline of at most
\* MaxVertices vertices, and an end of it
Windows == { Prefix(n) : n \in 1..MaxVertices } \cup { Suffix(MaxVertices - 1) }

Reverse(line) == [i \in 1..Len(line) |-> line[Len(line) + 1 - i]]

\* A line that leaves the tile and comes back
Reentering == <<Pt(0, 0), Pt(4, -1), Pt(3, 4)>>

\* A line from the right edge of the tile, x = EXTENT, to a point inside the tile
\* two units from it
FromRightEdge == <<Pt(EXTENT, 8), Pt(EXTENT - 2, 8)>>

\* One line (or one array of points), or two of them
LineGeometries ==
    { <<w>> : w \in Windows } \cup { <<Prefix(2), Suffix(2)>>, <<Reentering>>, <<FromRightEdge>> }

\* A ring to the right of the tile
OutsideRing == <<Pt(8200, 20), Pt(8200, 8), Pt(8192, 8)>>

\* One ring, two exterior rings, or an exterior ring and a hole
PolygonGeometries ==
    { <<w>> : w \in { v \in Windows : Len(v) >= 3 } }
    \cup { <<OutsideRing>>, <<Prefix(3), Prefix(3)>>, <<Prefix(3), Reverse(Prefix(3))>>,
           <<Prefix(3), OutsideRing>> }

GeometriesOf(type) == IF type = "Polygon" THEN PolygonGeometries ELSE LineGeometries

\* The texts a layer is exercised with
TextsOf(lay) ==
    IF lay.textVariableAnchor # Undefined THEN {"A", "M", "?"}
    ELSE IF lay.symbolPlacement = "line" THEN {"A", "B"}
    ELSE {"A"}

\* The text and icon of a feature: a text, or an icon alone (on the points of
\* placement 'point' and on the lines of placement 'line')
ContentsOf(lay, type) ==
    { [text |-> Some(t), icon |-> Undefined] : t \in TextsOf(lay) }
    \cup IF (type = "Point" /\ lay.symbolPlacement = "point") \/ lay.symbolPlacement = "line"
         THEN { [text |-> Undefined, icon |-> Some("img")] } ELSE {}

TypesOf(lay) ==
    IF lay.textVariableAnchor # Undefined THEN {"Point"}
    ELSE IF IncludesLine(lay.symbolPlacement) THEN {"LineString"}
    ELSE {"Point", "LineString", "Polygon"}

\* getCenterAnchor finds an anchor unless the line bends too much for the label
AngleOks(lay) == IF lay.symbolPlacement = "line-center" THEN BOOLEAN ELSE {TRUE}

\* A layer that fits its icons to the text, lays its text along the line, or
\* does not ask for the horizontal writing mode
HasFitOrAlongLineOrVertical(lay) ==
    \/ lay.iconTextFit # "none"
    \/ lay.textRotationAlignment = "map"
    \/ ~lay.textWritingModeHorizontal

\* The features of such a layer: a text (one that can be written vertically or
\* one that cannot), an icon, or both, on one or two points or on a line
TextAndIconInputs(lay) ==
    { [type |-> IF lay.symbolPlacement = "point" THEN "Point" ELSE "LineString",
       geometry |-> <<Prefix(n)>>, text |-> c[1], icon |-> c[2], angleOk |-> TRUE,
       textSize |-> <<16, 16>>, iconSize |-> <<1, 1>>] :
        n \in (IF lay.symbolPlacement = "point" THEN {1, 2} ELSE {2, 3}),
        c \in ({Some("A"), Some("V"), Some("W"), Undefined} \X {Some("img"), Undefined})
              \ {<<Undefined, Undefined>>} }

\* A layer whose text-size or icon-size depends on the feature
HasFeatureSizes(lay) == lay.textSizeKind # "constant" \/ lay.iconSizeKind # "constant"

\* The values of a size at the two zoom stops: small, the largest that can be
\* packed, and one beyond it at either stop
FeatureSizes == { <<16, 16>>, <<MAX_GLYPH_ICON_SIZE, MAX_GLYPH_ICON_SIZE>>,
                  <<MAX_GLYPH_ICON_SIZE, MAX_GLYPH_ICON_SIZE + 1>>,
                  <<MAX_GLYPH_ICON_SIZE + 1, 16>> }

\* The features of such a layer: a point with a text, with or without an icon,
\* with a text-size or an icon-size of its own
SizedInputs ==
    { [type |-> "Point", geometry |-> <<Prefix(1)>>, text |-> Some("A"), icon |-> icon,
       angleOk |-> TRUE, textSize |-> z[1], iconSize |-> z[2]] :
        icon \in {Some("img"), Undefined},
        z \in { <<size, <<1, 1>>>> : size \in FeatureSizes }
              \cup { <<<<16, 16>>, size>> : size \in FeatureSizes } }

\* The features of a layer with rotated icons: one or two points with an icon
\* that is an SDF image, one that is not, or one that is no image of the style,
\* with or without a text
IconInputs ==
    { [type |-> "Point", geometry |-> <<Prefix(n)>>, text |-> text, icon |-> Some(icon),
       angleOk |-> TRUE, textSize |-> <<16, 16>>, iconSize |-> <<1, 1>>] :
        n \in {1, 2}, text \in {Some("A"), Undefined}, icon \in ImageMap \cup {"missing"} }

FeatureInputs(lay) ==
    IF HasFitOrAlongLineOrVertical(lay) THEN TextAndIconInputs(lay)
    ELSE IF HasFeatureSizes(lay) THEN SizedInputs
    ELSE IF lay.iconRotate # 0 THEN IconInputs
    ELSE
    UNION { { [type |-> type, geometry |-> g, text |-> c.text, icon |-> c.icon, angleOk |-> ok,
                 textSize |-> <<16, 16>>, iconSize |-> <<1, 1>>] :
                g \in GeometriesOf(type), c \in ContentsOf(lay, type), ok \in AngleOks(lay) } :
            type \in TypesOf(lay) }

-----------------------------------------------------------------------------
(* The layout of a bucket *)

\* A layer of every symbol-placement, and layers with text-variable-anchor
PlacementLayouts == { [BaseLayout EXCEPT !.symbolPlacement = p] : p \in Placements }

VariableAnchors == { <<"left", "right">>, <<"center", "top-left", "right">> }

VariableLayouts ==
    { [BaseLayout EXCEPT !.textVariableAnchor = va, !.textJustify = "auto"] :
        va \in VariableAnchors }

Layouts == PlacementLayouts \cup VariableLayouts

\* Layers whose features have a text and an icon: icons fitted to the text on
\* points, text along the line, and lines without the horizontal writing mode
TextAndIconLayouts ==
    { [BaseLayout EXCEPT !.iconTextFit = "both"] }
    \cup { [BaseLayout EXCEPT !.symbolPlacement = "line", !.textRotationAlignment = "map",
                              !.iconTextFit = fit] : fit \in {"none", "both"} }
    \cup { [BaseLayout EXCEPT !.symbolPlacement = "line", !.textWritingModeHorizontal = FALSE,
                              !.textRotationAlignment = a] : a \in {"auto", "map"} }

NoCall == [name |-> "none"]

Init ==
    /\ pc = "idle"
    /\ SourcesIdle
    /\ layout \in Layouts
    /\ bucket = NewBucket(FALSE)
    /\ features = <<>>
    /\ shapedTextOrientations = [horizontal |-> <<>>, vertical |-> Undefined]
    /\ shapeTextCalls = 0
    /\ callArgs = NoCall
    /\ callRet = NoCall

\* A faulty start of performSymbolLayout: the registry of the build before is kept
ResetBucketKeepingRegistry(b) ==
    [createArrays(b) EXCEPT
        !.tilePixelRatio = EXTENT \div (512 * b.overscaling),
        !.iconsNeedLinear = FALSE]

\* The first statements of performSymbolLayout: the arrays are created anew, the
\* registry is emptied
ResetBucket(b) ==
    [createArrays(b) EXCEPT
        !.tilePixelRatio = EXTENT \div (512 * b.overscaling),
        !.compareText = <<>>,
        !.iconsNeedLinear = FALSE]

\* performSymbolLayout, up to the feature loop
BeginLayout ==
    /\ pc = "idle"
    /\ pc' = "layout"
    /\ bucket' = ResetBucket(bucket)
    /\ features' = <<>>
    /\ UNCHANGED <<layout, shapedTextOrientations, shapeTextCalls, callArgs, callRet>>
    /\ UNCHANGED sourceVars

FeatureOf(input, index) ==
    [index |-> index, type |-> input.type, geometry |-> input.geometry,
     text |-> input.text, icon |-> input.icon, angleOk |-> input.angleOk,
     textSize |-> input.textSize, iconSize |-> input.iconSize]

\* The variables after the iteration for feature f with outcome r
FeatureDone(f, r) ==
    /\ bucket' = r.bucket
    /\ features' = Append(features, f)
    /\ shapedTextOrientations' = r.S
    /\ shapeTextCalls' = r.calls

\* One iteration of the feature loop, on the next feature of bucket.features
NextFeature ==
    /\ pc = "layout"
    /\ Len(features) < MaxFeatures
    /\ ~bucket.threw
    /\ \E input \in FeatureInputs(layout) :
         FeatureDone(FeatureOf(input, Len(features)),
                     LayoutFeature(bucket, FeatureOf(input, Len(features))))
    /\ UNCHANGED <<pc, layout, callArgs, callRet>>
    /\ UNCHANGED sourceVars

Next == BeginLayout \/ NextFeature

Spec == Init /\ [][Next]_vars

\* The number of builds of one bucket
MaxBuilds == 2

\* The layers of the buckets that are built more than once
RebuildLayouts == { [BaseLayout EXCEPT !.symbolPlacement = p] : p \in {"point", "line"} }

InitRebuild ==
    /\ pc = "idle"
    /\ SourcesIdle
    /\ layout \in RebuildLayouts
    /\ bucket = NewBucket(FALSE)
    /\ features = <<>>
    /\ shapedTextOrientations = [horizontal |-> <<>>, vertical |-> Undefined]
    /\ shapeTextCalls = 0
    /\ callArgs = NoCall
    /\ callRet = [name |-> "performSymbolLayout", builds |-> 0, features |-> <<>>,
                  symbolInstances |-> <<>>, compareText |-> <<>>]

\* performSymbolLayout returns after the last feature of bucket.features: the
\* bucket keeps what the build left in it, and callRet remembers the build
EndLayout ==
    /\ pc = "layout"
    /\ callRet.builds + 1 < MaxBuilds
    /\ pc' = "idle"
    /\ callRet' = [name |-> "performSymbolLayout", builds |-> callRet.builds + 1,
                   features |-> features, symbolInstances |-> bucket.symbolInstances,
                   compareText |-> bucket.compareText]
    /\ UNCHANGED <<layout, bucket, features, shapedTextOrientations, shapeTextCalls, callArgs>>
    /\ UNCHANGED sourceVars

\* One iteration of the feature loop of a build after the first: bucket.features
\* is what it was in the build before
NextFeatureAgain ==
    /\ pc = "layout"
    /\ callRet.builds > 0
    /\ Len(features) < Len(callRet.features)
    /\ ~bucket.threw
    /\ FeatureDone(callRet.features[Len(features) + 1],
                   LayoutFeature(bucket, callRet.features[Len(features) + 1]))
    /\ UNCHANGED <<pc, layout, callArgs, callRet>>
    /\ UNCHANGED sourceVars

NextRebuild ==
    \/ BeginLayout
    \/ callRet.builds = 0 /\ NextFeature
    \/ NextFeatureAgain
    \/ EndLayout

SpecRebuild == InitRebuild /\ [][NextRebuild]_vars

\* The layout of a bucket of a layer with texts and icons, with and without
\* vertical placement
InitTextAndIcon ==
    /\ pc = "idle"
    /\ SourcesIdle
    /\ layout \in TextAndIconLayouts
    /\ bucket \in { NewBucket(allowVerticalPlacement) : allowVerticalPlacement \in BOOLEAN }
    /\ features = <<>>
    /\ shapedTextOrientations = [horizontal |-> <<>>, vertical |-> Undefined]
    /\ shapeTextCalls = 0
    /\ callArgs = NoCall
    /\ callRet = NoCall

SpecTextAndIcon == InitTextAndIcon /\ [][Next]_vars

\* Layers whose text-size and icon-size depend on the feature
SizeLayouts ==
    { [BaseLayout EXCEPT !.textSizeKind = t, !.iconSizeKind = i] :
        t \in {"source", "composite"}, i \in {"source", "composite"} }

\* The bucket of such a layer: its constructor sets textSizeData and iconSizeData
\* from the text-size and the icon-size of the layer
InitSizes ==
    /\ pc = "idle"
    /\ SourcesIdle
    /\ layout \in SizeLayouts
    /\ bucket = [NewBucket(FALSE) EXCEPT !.textSizeData = [kind |-> layout.textSizeKind],
                                         !.iconSizeData = [kind |-> layout.iconSizeKind]]
    /\ features = <<>>
    /\ shapedTextOrientations = [horizontal |-> <<>>, vertical |-> Undefined]
    /\ shapeTextCalls = 0
    /\ callArgs = NoCall
    /\ callRet = NoCall

SpecSizes == InitSizes /\ [][Next]_vars

\* Layers with rotated icons
IconLayouts == { [BaseLayout EXCEPT !.iconRotate = r] : r \in {90, 180} }

InitIcons ==
    /\ pc = "idle"
    /\ SourcesIdle
    /\ layout \in IconLayouts
    /\ bucket = NewBucket(FALSE)
    /\ features = <<>>
    /\ shapedTextOrientations = [horizontal |-> <<>>, vertical |-> Undefined]
    /\ shapeTextCalls = 0
    /\ callArgs = NoCall
    /\ callRet = NoCall

SpecIcons == InitIcons /\ [][Next]_vars

-----------------------------------------------------------------------------
(* evaluateVariableOffset and the text offset of a layer with a fixed anchor *)

baselineOffset == 7

\* Number.POSITIVE_INFINITY, as a number no offset reaches
INVALID_TEXT_OFFSET == 1000000

\* The number i + h / sqrt2, kept exact
Num(i, h) == [i |-> i, h |-> h]

TextAnchors ==
    {"center", "left", "right", "top", "bottom",
     "top-left", "top-right", "bottom-left", "bottom-right"}

\* The radial branch of evaluateVariableOffset, after the negative offset was
\* replaced by 0
RadialVariableOffset(anchor, offsetX) ==
    <<CASE anchor \in {"top-right", "bottom-right"} -> Num(0, -offsetX)
        [] anchor \in {"top-left", "bottom-left"} -> Num(0, offsetX)
        [] anchor = "left" -> Num(offsetX, 0)
        [] anchor = "right" -> Num(-offsetX, 0)
        [] OTHER -> Num(0, 0),
      CASE anchor \in {"top-right", "top-left"} -> Num(-baselineOffset, offsetX)
        [] anchor \in {"bottom-right", "bottom-left"} -> Num(baselineOffset, -offsetX)
        [] anchor = "bottom" -> Num(-offsetX + baselineOffset, 0)
        [] anchor = "top" -> Num(offsetX - baselineOffset, 0)
        [] OTHER -> Num(0, 0)>>

\* The text offset branch of evaluateVariableOffset, on the absolute values
LiteralVariableOffset(anchor, offsetX, offsetY) ==
    <<CASE anchor \in {"top-right", "bottom-right", "right"} -> Num(-offsetX, 0)
        [] anchor \in {"top-left", "bottom-left", "left"} -> Num(offsetX, 0)
        [] OTHER -> Num(0, 0),
      CASE anchor \in {"top-right", "top-left", "top"} -> Num(offsetY - baselineOffset, 0)
        [] anchor \in {"bottom-right", "bottom-left", "bottom"} -> Num(-offsetY + baselineOffset, 0)
        [] OTHER -> Num(0, 0)>>

\* A faulty evaluateVariableOffset: a negative radial offset is not ignored
evaluateVariableOffsetSigned(anchor, offset) ==
    IF offset[2] = INVALID_TEXT_OFFSET
    THEN RadialVariableOffset(anchor, offset[1])
    ELSE LiteralVariableOffset(anchor, IF offset[1] < 0 THEN -offset[1] ELSE offset[1],
                               IF offset[2] < 0 THEN -offset[2] ELSE offset[2])

evaluateVariableOffset(anchor, offset) ==
    IF offset[2] = INVALID_TEXT_OFFSET
    THEN RadialVariableOffset(anchor, IF offset[1] < 0 THEN 0 ELSE offset[1])
    ELSE LiteralVariableOffset(anchor, IF offset[1] < 0 THEN -offset[1] ELSE offset[1],
                               IF offset[2] < 0 THEN -offset[2] ELSE offset[2])

\* performSymbolLayout: the text offset of a feature of a layer without
\* text-variable-anchor, from text-radial-offset and text-offset in ems
FixedAnchorTextOffset(textAnchor, radialOffset, textOffset) ==
    IF radialOffset # 0
    THEN evaluateVariableOffset(textAnchor, <<radialOffset * ONE_EM, INVALID_TEXT_OFFSET>>)
    ELSE <<Num(textOffset[1] * ONE_EM, 0), Num(textOffset[2] * ONE_EM, 0)>>

OffsetCallInputs ==
    { [name |-> "evaluateVariableOffset", anchor |-> a, offset |-> <<x, y>>] :
        a \in TextAnchors, x \in {-ONE_EM, 0, ONE_EM, 2 * ONE_EM},
        y \in {-12, 0, 36, INVALID_TEXT_OFFSET} }
    \cup { [name |-> "textOffset", anchor |-> a, radialOffset |-> r, textOffset |-> off] :
        a \in TextAnchors, r \in {-1, 0, 2}, off \in {<<0, 0>>, <<1, -2>>} }

InitOffset ==
    /\ pc = "call"
    /\ SourcesIdle
    /\ callArgs \in OffsetCallInputs
    /\ callRet = NoCall
    /\ layout = BaseLayout
    /\ bucket = NewBucket(FALSE)
    /\ features = <<>>
    /\ shapedTextOrientations = [horizontal |-> <<>>, vertical |-> Undefined]
    /\ shapeTextCalls = 0

EvaluateVariableOffset ==
    /\ pc = "call"
    /\ callArgs.name = "evaluateVariableOffset"
    /\ pc' = "returned"
    /\ callRet' = [name |-> callArgs.name,
                   value |-> evaluateVariableOffset(callArgs.anchor, callArgs.offset)]
    /\ UNCHANGED <<layout, bucket, features, shapedTextOrientations, shapeTextCalls, callArgs>>
    /\ UNCHANGED sourceVars

\* The text offset performSymbolLayout computes for a feature
EvaluateTextOffset ==
    /\ pc = "call"
    /\ callArgs.name = "textOffset"
    /\ pc' = "returned"
    /\ callRet' = [name |-> callArgs.name,
                   value |-> FixedAnchorTextOffset(callArgs.anchor, callArgs.radialOffset,
                                                   callArgs.textOffset)]
    /\ UNCHANGED <<layout, bucket, features, shapedTextOrientations, shapeTextCalls, callArgs>>
    /\ UNCHANGED sourceVars

NextOffset == EvaluateVariableOffset \/ EvaluateTextOffset

SpecOffset == InitOffset /\ [][NextOffset]_vars

-----------------------------------------------------------------------------
(* Direct calls of evaluateCircleCollisionFeature *)

InitCircle ==
    /\ pc = "call"
    /\ SourcesIdle
    /\ callArgs \in { [name |-> "evaluateCircleCollisionFeature", shaped |-> s] :
                        s \in CircleShapedInputs }
    /\ callRet = NoCall
    /\ layout = BaseLayout
    /\ bucket = NewBucket(FALSE)
    /\ features = <<>>
    /\ shapedTextOrientations = [horizontal |-> <<>>, vertical |-> Undefined]
    /\ shapeTextCalls = 0

\* The call returns: its value, and its argument as it leaves it
EvaluateCircle ==
    /\ pc = "call"
    /\ callArgs.name = "evaluateCircleCollisionFeature"
    /\ pc' = "returned"
    /\ callRet' = [name |-> callArgs.name,
                   value |-> evaluateCircleCollisionFeature(callArgs.shaped),
                   shaped |-> CircleShapedAfter(callArgs.shaped)]
    /\ UNCHANGED <<layout, bucket, features, shapedTextOrientations, shapeTextCalls, callArgs>>
    /\ UNCHANGED sourceVars

NextCircle == EvaluateCircle

SpecCircle == InitCircle /\ [][NextCircle]_vars

-----------------------------------------------------------------------------
(* Direct calls of evaluateBoxCollisionFeature *)

InitBox ==
    /\ pc = "call"
    /\ SourcesIdle
    /\ callArgs \in BoxCallInputs
    /\ callRet = NoCall
    /\ layout = BaseLayout
    /\ bucket = NewBucket(FALSE)
    /\ features = <<>>
    /\ shapedTextOrientations = [horizontal |-> <<>>, vertical |-> Undefined]
    /\ shapeTextCalls = 0

\* The call appends a box to bucket.collisionBoxArray and returns its index
EvaluateBox ==
    /\ pc = "call"
    /\ callArgs.name = "evaluateBoxCollisionFeature"
    /\ pc' = "returned"
    /\ bucket' = [bucket EXCEPT !.collisionBoxArray =
                    evaluateBoxCollisionFeature(@, callArgs.anchor, callArgs.anchor, 0,
                        callArgs.shaped, callArgs.padding, callArgs.rotate,
                        callArgs.textOffset, callArgs.iconScaledSize)]
    /\ callRet' = [name |-> callArgs.name, value |-> Len(bucket.collisionBoxArray)]
    /\ UNCHANGED <<layout, features, shapedTextOrientations, shapeTextCalls, callArgs>>
    /\ UNCHANGED sourceVars

NextBox == EvaluateBox

SpecBox == InitBox /\ [][NextBox]_vars

-----------------------------------------------------------------------------
(* What the properties below read from a state *)

AnchorInRange(x, y) == 0 <= x /\ x < EXTENT /\ 0 <= y /\ y < EXTENT

\* The anchors of the Symbol Instances of the feature with the given index, in
\* the order of bucket.symbolInstances
AnchorsOf(index) ==
    LET own == SelectSeq(bucket.symbolInstances, LAMBDA s : s.featureIndex = index)
    IN  [k \in 1..Len(own) |-> Pt(own[k].anchorX, own[k].anchorY)]

\* The points of a sequence that lie inside the tile, in order
InRangeOnly(points) == SelectSeq(points, LAMBDA p : AnchorInRange(p.x, p.y))

\* The feature has a text or an icon shaping
HasShaping(f) ==
    \/ f.text # Undefined /\ Val(f.text) # "?"
    \/ f.icon # Undefined /\ Val(f.icon) \in ImageMap

PlacedSymbols == bucket.textPlacedSymbolArray \o bucket.iconPlacedSymbolArray

\* The text of the feature of the i-th Symbol Instance
TextOfInstance(i) == features[bucket.symbolInstances[i].featureIndex + 1].text

-----------------------------------------------------------------------------
(* Properties of the layout of a bucket *)

\* C1: an anchor outside [0, EXTENT) x [0, EXTENT) leaves nothing behind: every
\* Symbol Instance, every collision box and every placed symbol has its anchor
\* inside the tile, and every record of the line vertex array belongs to a placed
\* symbol
C1_AnchorsInsideTile ==
    /\ \A i \in 1..Len(bucket.symbolInstances) :
         AnchorInRange(bucket.symbolInstances[i].anchorX, bucket.symbolInstances[i].anchorY)
    /\ \A i \in 1..Len(bucket.collisionBoxArray) :
         AnchorInRange(bucket.collisionBoxArray[i].tileAnchorX,
                       bucket.collisionBoxArray[i].tileAnchorY)
    /\ \A i \in 1..Len(PlacedSymbols) :
         AnchorInRange(PlacedSymbols[i].anchorX, PlacedSymbols[i].anchorY)
    /\ \A v \in 1..Len(bucket.lineVertexArray) :
         \E i \in 1..Len(PlacedSymbols) :
            /\ PlacedSymbols[i].lineStartIndex < v
            /\ v <= PlacedSymbols[i].lineStartIndex + PlacedSymbols[i].lineLength

\* A line with vertices inside and outside the tile had a symbol at each vertex
\* inside
C1_Witness ==
    /\ layout.symbolPlacement = "vertex"
    /\ Len(features) = 1
    /\ features[1].type = "LineString"
    /\ features[1].geometry = <<Suffix(MaxVertices - 1)>>
    /\ Len(bucket.symbolInstances) >= 1
    /\ Len(bucket.symbolInstances) < MaxVertices - 1

\* C2: under placement 'point', the Symbol Instances of a Point feature that has a
\* text or icon shaping are anchored at its points inside the tile, one each, in
\* order: a point outside the tile has no instance and is not moved into the tile
C2_OneInstancePerPointInRange ==
    layout.symbolPlacement = "point" =>
        \A i \in 1..Len(features) :
            (features[i].type = "Point" /\ HasShaping(features[i])) =>
                AnchorsOf(features[i].index) = InRangeOnly(Flatten(features[i].geometry))

\* A Point feature with two arrays of points, some of them outside the tile
C2_Witness ==
    /\ layout.symbolPlacement = "point"
    /\ Len(features) = 1
    /\ features[1].type = "Point"
    /\ features[1].geometry = <<Prefix(2), Suffix(2)>>
    /\ Len(bucket.symbolInstances) = 2

\* C3: under placement 'line', two Symbol Instances of features with the same text
\* are at least symbolMinDistance / 2 apart
C3_RepeatDistance ==
    layout.symbolPlacement = "line" =>
        \A i, j \in 1..Len(bucket.symbolInstances) :
            (i < j /\ TextOfInstance(i) # Undefined /\ TextOfInstance(i) = TextOfInstance(j)) =>
                ~DistLessThanHalf(
                    Pt(bucket.symbolInstances[i].anchorX, bucket.symbolInstances[i].anchorY),
                    Pt(bucket.symbolInstances[j].anchorX, bucket.symbolInstances[j].anchorY),
                    tilePixelRatioForSymbolSpacing(bucket.overscaling, bucket.zoom)
                        * layout.symbolSpacing)

\* Two features with the same text: an anchor of the first and every anchor of the
\* second were too close to an anchor with a symbol
C3_Witness ==
    /\ layout.symbolPlacement = "line"
    /\ Len(features) = 2
    /\ features[1].text = Some("A") /\ features[2].text = Some("A")
    /\ features[1].geometry = <<Prefix(3)>>
    /\ features[2].geometry = <<Prefix(2)>>
    /\ Len(bucket.symbolInstances) = 2

\* C4: in a layer with text-variable-anchor, when the first shaping of a feature is
\* a single line, shapeText was called once, and every justification asked for
\* holds that shaping
C4_SingleLineShapingReused ==
    (/\ layout.textVariableAnchor # Undefined
     /\ Len(features) > 0
     /\ Len(shapedTextOrientations.horizontal) > 0
     /\ Val(shapedTextOrientations.horizontal[1].value).positionedLines = 1) =>
        /\ shapeTextCalls = 1
        /\ \A k \in 1..Len(shapedTextOrientations.horizontal) :
              shapedTextOrientations.horizontal[k].value =
                  shapedTextOrientations.horizontal[1].value

\* The half of C4 the code keeps: no second shapeText call after a single line
C4_NoFurtherShapeTextCall ==
    (/\ layout.textVariableAnchor # Undefined
     /\ Len(features) > 0
     /\ Len(shapedTextOrientations.horizontal) > 0
     /\ Val(shapedTextOrientations.horizontal[1].value).positionedLines = 1) =>
        shapeTextCalls = 1

\* A single-line text in a layer that asks for two justifications: the entry of
\* the second justification is undefined
C4_Witness ==
    /\ layout.textVariableAnchor = <<"left", "right">>
    /\ Len(features) = 1
    /\ features[1].text = Some("A")
    /\ Keys(shapedTextOrientations.horizontal) = <<"left", "right">>
    /\ shapedTextOrientations.horizontal[2].value = Undefined
    /\ shapeTextCalls = 1

\* The vertices (counted from 0) a vertex placement selects on a line of n >= 3
\* vertices
SelectedVertices(symbolPlacement, n) ==
    CASE symbolPlacement = "vertex" -> [k \in 1..n |-> k - 1]
      [] symbolPlacement = "middle-vertex" -> [k \in 1..(n - 2) |-> k]
      [] symbolPlacement = "first-last-vertex" -> <<0, n - 1>>
      [] symbolPlacement = "except-first-vertex" -> [k \in 1..(n - 1) |-> k]
      [] symbolPlacement = "except-last-vertex" -> [k \in 1..(n - 1) |-> k - 1]
      [] symbolPlacement = "first-vertex" -> <<0>>
      [] symbolPlacement = "last-vertex" -> <<n - 1>>

\* A LineString of one line of n >= 3 vertices, all inside the tile
LineInsideTile(f) ==
    /\ f.type = "LineString"
    /\ Len(f.geometry) = 1
    /\ Len(f.geometry[1]) >= 3
    /\ \A v \in 1..Len(f.geometry[1]) : AnchorInRange(f.geometry[1][v].x, f.geometry[1][v].y)

\* C7: under a vertex placement, the Symbol Instances of a line of n >= 3 vertices
\* inside the tile are anchored at the vertices the placement names, in order
C7_VertexSelection ==
    layout.symbolPlacement \in VertexPlacements =>
        \A i \in 1..Len(features) :
            (LineInsideTile(features[i]) /\ HasShaping(features[i])) =>
                LET line == features[i].geometry[1]
                    selected == SelectedVertices(layout.symbolPlacement, Len(line))
                IN  AnchorsOf(features[i].index) = [k \in 1..Len(selected) |-> line[selected[k] + 1]]

\* A line of MaxVertices vertices under 'middle-vertex': all but the first and last
C7_Witness ==
    /\ layout.symbolPlacement = "middle-vertex"
    /\ Len(features) = 1
    /\ features[1].type = "LineString"
    /\ features[1].geometry = <<Prefix(MaxVertices)>>
    /\ Len(bucket.symbolInstances) = MaxVertices - 2

\* The poles of inaccessibility of the polygons of a Polygon feature
PolesOf(f) ==
    LET polygons == classifyRings(f.geometry, 1, <<>>)
    IN  [n \in 1..Len(polygons) |-> findPoleOfInaccessibility(polygons[n])]

\* C8, as the code has it: under placement 'point', a Polygon feature that has a
\* shaping has one Symbol Instance for each of its polygons (each exterior ring
\* with its holes) whose pole of inaccessibility lies inside the tile, anchored at
\* that pole
C8_OneInstancePerPolygon ==
    layout.symbolPlacement = "point" =>
        \A i \in 1..Len(features) :
            (features[i].type = "Polygon" /\ HasShaping(features[i])) =>
                AnchorsOf(features[i].index) = InRangeOnly(PolesOf(features[i]))

\* C8, as the specification has it: under placement 'point', a Polygon feature
\* that has a shaping and whose pole lies inside the tile has exactly one Symbol
\* Instance, whatever the number of its rings
C8_OneInstancePerFeature ==
    layout.symbolPlacement = "point" =>
        \A i \in 1..Len(features) :
            (/\ features[i].type = "Polygon" /\ HasShaping(features[i])
             /\ \A n \in 1..Len(PolesOf(features[i])) :
                   AnchorInRange(PolesOf(features[i])[n].x, PolesOf(features[i])[n].y)) =>
                Len(AnchorsOf(features[i].index)) = 1

\* A Polygon feature of an exterior ring and a hole: one instance; and one of two
\* exterior rings: two instances
C8_Witness ==
    /\ layout.symbolPlacement = "point"
    /\ Len(features) = 2
    /\ features[1].type = "Polygon" /\ features[2].type = "Polygon"
    /\ features[1].geometry = <<Prefix(3), Reverse(Prefix(3))>>
    /\ features[2].geometry = <<Prefix(3), Prefix(3)>>
    /\ Len(AnchorsOf(0)) = 1
    /\ Len(AnchorsOf(1)) = 2

\* The anchors inside the tile among those addFeature generates for a feature
AcceptedCandidates(f) ==
    LET cands == Candidates(f, layout.symbolPlacement)
    IN  InRangeOnly([k \in 1..Len(cands) |-> Pt(cands[k].anchor.x, cands[k].anchor.y)])

\* C9: under every placement but 'line' the registry bucket.compareText stays
\* empty, and every anchor inside the tile of a feature that has a shaping has its
\* Symbol Instance, whatever the features before it
C9_NoRegistryOutsideLine ==
    layout.symbolPlacement # "line" =>
        /\ bucket.compareText = <<>>
        /\ \A i \in 1..Len(features) :
              HasShaping(features[i]) =>
                  AnchorsOf(features[i].index) = AcceptedCandidates(features[i])

\* Two features with the same text and the same two points, 5 units apart: four
\* instances
C9_Witness ==
    /\ layout.symbolPlacement = "point"
    /\ layout.textVariableAnchor = Undefined
    /\ Len(features) = 2
    /\ features[1].type = "Point" /\ features[2].type = "Point"
    /\ features[1].text = Some("A") /\ features[2].text = Some("A")
    /\ features[1].geometry = <<Prefix(2)>> /\ features[2].geometry = <<Prefix(2)>>
    /\ Len(bucket.symbolInstances) = 4

-----------------------------------------------------------------------------
(* Properties of the collision feature builders *)

\* bottom - top of a shaping after its collision padding
PaddedHeight(shaped) ==
    IF shaped.collisionPadding # Undefined
    THEN (shaped.bottom + shaped.collisionPadding[4]) - (shaped.top - shaped.collisionPadding[2])
    ELSE shaped.bottom - shaped.top

\* C5: evaluateCircleCollisionFeature returns null for a padded height <= 0, else
\* the larger of 10 and the padded height; it returns no number below 10
C5_CircleDiameter ==
    (pc = "returned" /\ callRet.name = "evaluateCircleCollisionFeature") =>
        LET h == PaddedHeight(callArgs.shaped)
        IN  /\ h <= 0 => callRet.value = Null
            /\ h > 0 => callRet.value = Some(IF h > 10 THEN h ELSE 10)
            /\ callRet.value # Null => Val(callRet.value) >= 10

\* A shaping whose padded height is positive and below 10: the call returned 10
C5_Witness ==
    /\ pc = "returned"
    /\ callRet.name = "evaluateCircleCollisionFeature"
    /\ callArgs.shaped.collisionPadding # Undefined
    /\ PaddedHeight(callArgs.shaped) > 0
    /\ PaddedHeight(callArgs.shaped) < 10
    /\ callRet.value = Some(10)

\* C6: evaluateBoxCollisionFeature with rotate = 0 appends the box of the shaping
\* divided by iconScaledSize and widened by its collision padding, whatever the
\* text offset; with a rotation it appends the envelope of the four corners of
\* that box turned around the text offset, so x1 <= x2 and y1 <= y2
C6_BoxExtents ==
    (pc = "returned" /\ callRet.name = "evaluateBoxCollisionFeature") =>
        LET shaped == callArgs.shaped
            k == callArgs.iconScaledSize
            pad(n) == IF shaped.collisionPadding # Undefined
                      THEN shaped.collisionPadding[n] ELSE 0
            x1 == shaped.left \div k - pad(1)
            y1 == shaped.top \div k - pad(2)
            x2 == shaped.right \div k + pad(3)
            y2 == shaped.bottom \div k + pad(4)
            center == IF callArgs.textOffset # Null
                      THEN Pt(callArgs.textOffset[1], callArgs.textOffset[2]) ELSE Pt(0, 0)
            corners == { RotateAround(Pt(x, y), callArgs.rotate, center) :
                            x \in {x1, x2}, y \in {y1, y2} }
            box == bucket.collisionBoxArray[callRet.value + 1]
        IN  /\ callRet.value = Len(bucket.collisionBoxArray) - 1
            /\ callArgs.rotate = 0 =>
                  /\ box.x1 = x1 /\ box.y1 = y1 /\ box.x2 = x2 /\ box.y2 = y2
            /\ callArgs.rotate # 0 =>
                  /\ box.x1 <= box.x2 /\ box.y1 <= box.y2
                  /\ box.x1 = SetMin({c.x : c \in corners})
                  /\ box.x2 = SetMax({c.x : c \in corners})
                  /\ box.y1 = SetMin({c.y : c \in corners})
                  /\ box.y2 = SetMax({c.y : c \in corners})

\* A shaping with its left to the right of its right, a text offset and a quarter
\* turn: the box appended has x1 <= x2
C6_Witness ==
    /\ pc = "returned"
    /\ callRet.name = "evaluateBoxCollisionFeature"
    /\ callArgs.rotate = 90
    /\ callArgs.textOffset = <<24, -12>>
    /\ callArgs.shaped.left > callArgs.shaped.right
    /\ Len(bucket.collisionBoxArray) = 1
    /\ bucket.collisionBoxArray[1].x1 < bucket.collisionBoxArray[1].x2

-----------------------------------------------------------------------------
(* Properties of the anchors of lines and polygons *)

\* The lines of a feature with more than one vertex
LongLines(f) == SelectSeq(f.geometry, LAMBDA line : Len(line) > 1)

\* Every vertex of every line of the feature lies inside the tile
AllInsideTile(f) ==
    \A n \in 1..Len(f.geometry) : \A v \in 1..Len(f.geometry[n]) :
        AnchorInRange(f.geometry[n][v].x, f.geometry[n][v].y)

\* The anchors getCenterAnchor returns for the lines of a feature with more than
\* one vertex, in order
CenterAnchorsOf(f) ==
    LET found == SelectSeq(LongLines(f), LAMBDA line : getCenterAnchor(line, f.angleOk) # Undefined)
    IN  [n \in 1..Len(found) |->
            Pt(Val(getCenterAnchor(found[n], f.angleOk)).x,
               Val(getCenterAnchor(found[n], f.angleOk)).y)]

TooShortFor(line, symbolPlacement) ==
    \/ symbolPlacement \in {"last-vertex", "except-first-vertex", "except-last-vertex"} /\ Len(line) = 1
    \/ symbolPlacement = "middle-vertex" /\ Len(line) <= 2

\* C12: a LineString feature whose line has fewer vertices than the placement mode
\* requires (one vertex under 'last-vertex', 'except-first-vertex' and
\* 'except-last-vertex', one or two under 'middle-vertex') is skipped: it has no
\* Symbol Instance
C12_ShortLineSkipped ==
    \A i \in 1..Len(features) :
        (/\ features[i].type = "LineString"
         /\ HasShaping(features[i])
         /\ Len(features[i].geometry) = 1
         /\ TooShortFor(features[i].geometry[1], layout.symbolPlacement)) =>
            Len(AnchorsOf(features[i].index)) = 0

\* A line of one vertex under 'except-first-vertex' has an instance at its first
\* vertex
C12_Witness ==
    /\ layout.symbolPlacement = "except-first-vertex"
    /\ Len(features) = 1
    /\ features[1].type = "LineString"
    /\ features[1].geometry = <<Prefix(1)>>
    /\ AnchorsOf(0) = <<Prefix(1)[1]>>

-----------------------------------------------------------------------------
(* Properties of the Symbol Instance addSymbol assembles *)

\* The placed text symbols of a Symbol Instance written horizontally
HorizontalTextIndices(s) ==
    {s.rightJustifiedTextSymbolIndex, s.centerJustifiedTextSymbolIndex,
     s.leftJustifiedTextSymbolIndex} \ {-1}

\* Entry index of the placed icon symbols was appended for the anchor and the
\* feature of the record s, in the given writing mode
IsIconOf(s, index, vertical) ==
    /\ 0 <= index /\ index < Len(bucket.iconPlacedSymbolArray)
    /\ bucket.iconPlacedSymbolArray[index + 1].anchorX = s.anchorX
    /\ bucket.iconPlacedSymbolArray[index + 1].anchorY = s.anchorY
    /\ bucket.iconPlacedSymbolArray[index + 1].featureIndex = s.featureIndex
    /\ bucket.iconPlacedSymbolArray[index + 1].vertical = vertical

\* C13: the placed icon symbols of an anchor are appended before its placed text
\* symbols, so that a placed text symbol refers to a placed icon symbol that is
\* already there: a horizontal text refers to the horizontal icon of its anchor, a
\* vertical text to the vertical icon of its anchor, or to none (-1); a placed icon
\* symbol refers to none
C13_TextRefersToPlacedIcon ==
    /\ \A k \in 1..Len(bucket.iconPlacedSymbolArray) :
         bucket.iconPlacedSymbolArray[k].associatedIconIndex = -1
    /\ \A k \in 1..Len(bucket.textPlacedSymbolArray) :
         \/ bucket.textPlacedSymbolArray[k].associatedIconIndex = -1
         \/ IsIconOf(bucket.textPlacedSymbolArray[k],
                     bucket.textPlacedSymbolArray[k].associatedIconIndex,
                     bucket.textPlacedSymbolArray[k].vertical)
    /\ \A i \in 1..Len(bucket.symbolInstances) :
         LET s == bucket.symbolInstances[i]
         IN  /\ s.placedIconSymbolIndex >= 0 => IsIconOf(s, s.placedIconSymbolIndex, FALSE)
             /\ s.verticalPlacedIconSymbolIndex >= 0 =>
                    IsIconOf(s, s.verticalPlacedIconSymbolIndex, TRUE)
             /\ \A t \in HorizontalTextIndices(s) :
                    /\ ~bucket.textPlacedSymbolArray[t + 1].vertical
                    /\ bucket.textPlacedSymbolArray[t + 1].associatedIconIndex
                           = s.placedIconSymbolIndex
             /\ s.verticalPlacedTextSymbolIndex >= 0 =>
                    /\ bucket.textPlacedSymbolArray[s.verticalPlacedTextSymbolIndex + 1].vertical
                    /\ bucket.textPlacedSymbolArray[s.verticalPlacedTextSymbolIndex + 1].associatedIconIndex
                           = s.verticalPlacedIconSymbolIndex

\* A text with an icon on two points: the second instance has a horizontal and a
\* vertical text that refer to its horizontal and its vertical icon, which are not
\* the first of the placed icon symbols
C13_Witness ==
    /\ Len(bucket.symbolInstances) = 2
    /\ bucket.symbolInstances[2].placedIconSymbolIndex = 2
    /\ bucket.symbolInstances[2].verticalPlacedIconSymbolIndex = 3
    /\ HorizontalTextIndices(bucket.symbolInstances[2]) # {}
    /\ bucket.symbolInstances[2].verticalPlacedTextSymbolIndex = 3
    /\ bucket.textPlacedSymbolArray[3].associatedIconIndex = 2
    /\ bucket.textPlacedSymbolArray[4].associatedIconIndex = 3

\* The box with the given index was appended for the anchor of the instance s
IsBoxOf(s, index) ==
    /\ 0 <= index /\ index < Len(bucket.collisionBoxArray)
    /\ bucket.collisionBoxArray[index + 1].tileAnchorX = s.anchorX
    /\ bucket.collisionBoxArray[index + 1].tileAnchorY = s.anchorY
    /\ bucket.collisionBoxArray[index + 1].featureIndex = s.featureIndex

\* The length of the collision box store when the i-th Symbol Instance was
\* written: the boxes of the anchors of the instances up to the i-th (the anchors
\* of a feature are distinct points here)
StoreLengthAt(i) ==
    Cardinality({ k \in 0..(Len(bucket.collisionBoxArray) - 1) :
                    \E j \in 1..i : IsBoxOf(bucket.symbolInstances[j], k) })

\* The range [start, end) of the i-th instance is one box of its anchor, or the
\* empty range at the end of the store
IsBoxRange(i, start, end) ==
    /\ start <= end /\ end <= StoreLengthAt(i)
    /\ \/ end = start + 1 /\ IsBoxOf(bucket.symbolInstances[i], start)
       \/ start = StoreLengthAt(i) /\ end = StoreLengthAt(i)

\* C14: each of the four collision box ranges of a Symbol Instance (text,
\* vertical text, icon, vertical icon) is [i, i+1) where i is the index of a box
\* appended for the anchor of the instance, or the empty range [L, L) where L is
\* the length of the collision box store when the instance is written; always
\* start <= end <= L
C14_BoxRanges ==
    \A i \in 1..Len(bucket.symbolInstances) :
        LET s == bucket.symbolInstances[i]
        IN  /\ IsBoxRange(i, s.textBoxStartIndex, s.textBoxEndIndex)
            /\ IsBoxRange(i, s.verticalTextBoxStartIndex, s.verticalTextBoxEndIndex)
            /\ IsBoxRange(i, s.iconBoxStartIndex, s.iconBoxEndIndex)
            /\ IsBoxRange(i, s.verticalIconBoxStartIndex, s.verticalIconBoxEndIndex)

\* A first instance with a box of each category, then an instance of an icon
\* alone: one box, and three empty ranges at the end of the store
C14_Witness ==
    /\ Len(bucket.symbolInstances) = 2
    /\ bucket.symbolInstances[1].verticalTextBoxEndIndex = 1
    /\ bucket.symbolInstances[1].verticalIconBoxEndIndex = 2
    /\ bucket.symbolInstances[1].iconBoxEndIndex = 3
    /\ bucket.symbolInstances[1].textBoxEndIndex = 4
    /\ bucket.symbolInstances[2].iconBoxStartIndex = 4
    /\ bucket.symbolInstances[2].iconBoxEndIndex = 5
    /\ bucket.symbolInstances[2].textBoxStartIndex = 5
    /\ bucket.symbolInstances[2].textBoxEndIndex = 5
    /\ bucket.symbolInstances[2].verticalIconBoxStartIndex = 5
    /\ Len(bucket.collisionBoxArray) = 5

\* The feature of the i-th Symbol Instance
FeatureOfInstance(i) == features[bucket.symbolInstances[i].featureIndex + 1]

\* The number of Symbol Instances of the feature of the i-th, up to the i-th
OrdinalInFeature(i) ==
    Cardinality({ j \in 1..i : bucket.symbolInstances[j].featureIndex
                                  = bucket.symbolInstances[i].featureIndex })

TextAlongLine == layout.textRotationAlignment = "map" /\ IncludesLine(layout.symbolPlacement)

\* The feature has a horizontal shaping, a vertical shaping, an icon fitted to
\* the vertical shaping
HasHorizontalShaping(f) ==
    /\ f.text # Undefined /\ Val(f.text) # "?"
    /\ \/ layout.symbolPlacement = "point"
       \/ layout.textWritingModeHorizontal
       \/ ~allowsVerticalWritingMode(Val(f.text))

HasVerticalShaping(f) ==
    f.text # Undefined /\ bucket.allowVerticalPlacement /\ allowsVerticalWritingMode(Val(f.text))

HasVerticalIcon(f) == HasVerticalShaping(f) /\ HasImage(f) /\ layout.iconTextFit # "none"

\* The circles computed for the i-th Symbol Instance, when its text is along the
\* line: the height of the horizontal text (one em a line), of the vertical text
\* (one em) and of the vertical icon (the vertical text with the padding of the
\* fitted icon, which every anchor of the feature adds once more above and below)
CirclesOf(i) ==
    IF ~TextAlongLine THEN {}
    ELSE (IF HasHorizontalShaping(FeatureOfInstance(i))
          THEN {ONE_EM * TextLines(Val(FeatureOfInstance(i).text))} ELSE {})
         \cup (IF HasVerticalShaping(FeatureOfInstance(i)) THEN {ONE_EM} ELSE {})
         \cup (IF HasVerticalIcon(FeatureOfInstance(i))
               THEN {ONE_EM + 2 * OrdinalInFeature(i)} ELSE {})

\* C15: collisionCircleDiameter is the largest of the circles computed for the
\* text, the vertical text and the vertical icon of the instance, and -1 when none
\* was computed; useRuntimeCollisionCircles is 1 exactly when a circle was
\* computed, and then the diameter is at least 10; when the text is along the line
\* the text and the vertical text box ranges are empty
C15_CollisionCircle ==
    \A i \in 1..Len(bucket.symbolInstances) :
        LET s == bucket.symbolInstances[i]
        IN  /\ s.collisionCircleDiameter = IF CirclesOf(i) = {} THEN -1 ELSE SetMax(CirclesOf(i))
            /\ s.useRuntimeCollisionCircles = IF CirclesOf(i) = {} THEN 0 ELSE 1
            /\ s.useRuntimeCollisionCircles = 1 => s.collisionCircleDiameter >= 10
            /\ TextAlongLine =>
                  /\ s.textBoxStartIndex = s.textBoxEndIndex
                  /\ s.verticalTextBoxStartIndex = s.verticalTextBoxEndIndex

\* A text of two lines along the line, with a vertical shaping: the circle of the
\* horizontal text is the tallest
C15_Witness ==
    /\ TextAlongLine
    /\ bucket.allowVerticalPlacement
    /\ Len(bucket.symbolInstances) >= 1
    /\ FeatureOfInstance(1).text = Some("W")
    /\ bucket.symbolInstances[1].verticalPlacedTextSymbolIndex >= 0
    /\ bucket.symbolInstances[1].collisionCircleDiameter = 2 * ONE_EM
    /\ bucket.symbolInstances[1].useRuntimeCollisionCircles = 1
    /\ bucket.symbolInstances[1].textBoxStartIndex = bucket.symbolInstances[1].textBoxEndIndex

\* C16: the key of a Symbol Instance is the hash of the rendered text of its
\* feature when the feature has a text shaping, horizontal or vertical only, and
\* the hash of the empty string only when it has none
C16_KeyIsHashOfText ==
    \A i \in 1..Len(bucket.symbolInstances) :
        bucket.symbolInstances[i].key =
            IF HasHorizontalShaping(FeatureOfInstance(i)) \/ HasVerticalShaping(FeatureOfInstance(i))
            THEN murmur3(Val(FeatureOfInstance(i).text))
            ELSE murmur3("")

\* C16, for the features with a horizontal shaping: the key is the hash of the
\* rendered text
C16_KeyOfHorizontalText ==
    \A i \in 1..Len(bucket.symbolInstances) :
        HasHorizontalShaping(FeatureOfInstance(i)) =>
            bucket.symbolInstances[i].key = murmur3(Val(FeatureOfInstance(i).text))

\* A line label with a vertical shaping only: its instance has a placed vertical
\* text and the key of the empty string
C16_Witness ==
    /\ Len(bucket.symbolInstances) >= 1
    /\ FeatureOfInstance(1).text = Some("V")
    /\ ~HasHorizontalShaping(FeatureOfInstance(1))
    /\ bucket.symbolInstances[1].verticalPlacedTextSymbolIndex >= 0
    /\ HorizontalTextIndices(bucket.symbolInstances[1]) = {}
    /\ bucket.symbolInstances[1].key = murmur3("")

-----------------------------------------------------------------------------
(* Properties of the packed sizes *)

\* C17: no size handed to bucket.addSymbols for a text or an icon exceeds
\* MAX_PACKED_SIZE: a larger packed text-size or icon-size is clamped to it
C17_PackedSizeClamped ==
    \A k \in 1..Len(PlacedSymbols) :
        \A n \in 1..Len(PlacedSymbols[k].sizeData) :
            PlacedSymbols[k].sizeData[n] <= MAX_PACKED_SIZE

\* C17, without the clamp: a packed size above MAX_PACKED_SIZE raises the warning
\* of its property, and the anchor still has its Symbol Instance
C17_WarningAndInstance ==
    /\ \A k \in 1..Len(bucket.textPlacedSymbolArray) :
         (\E n \in 1..Len(bucket.textPlacedSymbolArray[k].sizeData) :
             bucket.textPlacedSymbolArray[k].sizeData[n] > MAX_PACKED_SIZE)
         => "text-size" \in bucket.warnings
    /\ \A k \in 1..Len(bucket.iconPlacedSymbolArray) :
         (\E n \in 1..Len(bucket.iconPlacedSymbolArray[k].sizeData) :
             bucket.iconPlacedSymbolArray[k].sizeData[n] > MAX_PACKED_SIZE)
         => "icon-size" \in bucket.warnings
    /\ \A i \in 1..Len(features) :
         Len(AnchorsOf(features[i].index)) = 1

\* A text of size 256 under a composite text-size: the warning was raised, the
\* instance is there and its placed text symbol holds the size as it was packed
C17_Witness ==
    /\ bucket.textSizeData.kind = "composite"
    /\ Len(features) = 1
    /\ features[1].textSize = <<MAX_GLYPH_ICON_SIZE + 1, 16>>
    /\ Len(bucket.symbolInstances) = 1
    /\ bucket.warnings = {"text-size"}
    /\ bucket.textPlacedSymbolArray[1].sizeData
           = <<SIZE_PACK_FACTOR * (MAX_GLYPH_ICON_SIZE + 1), SIZE_PACK_FACTOR * 16>>

-----------------------------------------------------------------------------
(* Properties of the registry of placement 'line' *)

\* A Symbol Instance was emitted for the anchor, for a feature with the text
IsEmitted(text, anchor) ==
    \E i \in 1..Len(bucket.symbolInstances) :
        /\ TextOfInstance(i) = Some(text)
        /\ bucket.symbolInstances[i].anchorX = anchor.x
        /\ bucket.symbolInstances[i].anchorY = anchor.y

\* A Symbol Instance of a feature with the text lies closer to the point than
\* symbolMinDistance / 2
EmittedNearby(text, p) ==
    \E i \in 1..Len(bucket.symbolInstances) :
        /\ TextOfInstance(i) = Some(text)
        /\ DistLessThanHalf(Pt(bucket.symbolInstances[i].anchorX, bucket.symbolInstances[i].anchorY),
                            p,
                            tilePixelRatioForSymbolSpacing(bucket.overscaling, bucket.zoom)
                                * layout.symbolSpacing)

\* C18: under placement 'line', every anchor held in bucket.compareText is the
\* anchor of an emitted Symbol Instance of a feature with that text, and an anchor
\* inside the tile of a feature with a text is without a Symbol Instance only when
\* an emitted instance with the same text lies closer than symbolMinDistance / 2:
\* a discarded anchor suppresses no later anchor
C18_OnlyAcceptedAnchorsSuppress ==
    layout.symbolPlacement = "line" =>
        /\ \A e \in 1..Len(bucket.compareText) :
              \A k \in 1..Len(bucket.compareText[e].value) :
                  IsEmitted(bucket.compareText[e].key, bucket.compareText[e].value[k])
        /\ \A i \in 1..Len(features) :
              (features[i].text # Undefined /\ HasShaping(features[i])) =>
                  \A k \in 1..Len(AcceptedCandidates(features[i])) :
                      EmittedNearby(Val(features[i].text), AcceptedCandidates(features[i])[k])

\* A line from the right edge into the tile: the anchor on the edge is in the
\* registry without a Symbol Instance, and the anchor inside the tile two units
\* from it has none either
C18_Witness ==
    /\ layout.symbolPlacement = "line"
    /\ Len(features) = 1
    /\ features[1].text = Some("A")
    /\ features[1].geometry = <<FromRightEdge>>
    /\ bucket.compareText = <<[key |-> "A", value |-> <<Anchor(EXTENT, 8, Some(0))>>]>>
    /\ bucket.symbolInstances = <<>>

-----------------------------------------------------------------------------
(* Properties of the geometry handed to the anchor generators *)

\* The anchors the vertex selection of the placement gives on every ring of a
\* polygon feature, in order
AnchorsOfAllRings(f) ==
    LET cands == Flatten([n \in 1..Len(f.geometry) |->
                     addSymbolAtAnchorFromLine(f.geometry[n], layout.symbolPlacement)])
    IN  [k \in 1..Len(cands) |-> Pt(cands[k].anchor.x, cands[k].anchor.y)]

\* C19: under a placement of the vertex family every ring of a Polygon feature,
\* exterior or hole, is treated as a line: the feature has a Symbol Instance at
\* each vertex inside the tile that the placement selects on each of its rings
C19_EveryRingContributes ==
    layout.symbolPlacement \in VertexPlacements =>
        \A i \in 1..Len(features) :
            (features[i].type = "Polygon" /\ HasShaping(features[i])) =>
                AnchorsOf(features[i].index) = InRangeOnly(AnchorsOfAllRings(features[i]))

\* A polygon of an exterior ring of three vertices and a hole of three vertices
\* under 'vertex': three instances, on the exterior ring
C19_Witness ==
    /\ layout.symbolPlacement = "vertex"
    /\ Len(features) = 1
    /\ features[1].type = "Polygon"
    /\ features[1].geometry = <<Prefix(3), Reverse(Prefix(3))>>
    /\ AnchorsOf(0) = Prefix(3)

\* C20: under placement 'line' the geometry of a feature is clipped against the
\* tile rectangle expanded by a positive buffer on every side: the rectangle handed
\* to clipLine strictly contains [0, EXTENT] x [0, EXTENT]
C20_ClipRectangleContainsTile ==
    (layout.symbolPlacement = "line" /\ Len(features) > 0) =>
        /\ ClipRectangle.x1 < 0 /\ ClipRectangle.y1 < 0
        /\ ClipRectangle.x2 > EXTENT /\ ClipRectangle.y2 > EXTENT

\* C20, as far as it holds: under placement 'line' anchors are generated on the
\* clipped lines only, so that every anchor in the registry lies in the rectangle
\* handed to clipLine
C20_AnchorsOnClippedLines ==
    layout.symbolPlacement = "line" =>
        \A e \in 1..Len(bucket.compareText) :
            \A k \in 1..Len(bucket.compareText[e].value) :
                InRect(bucket.compareText[e].value[k], ClipRectangle.x1, ClipRectangle.y1,
                       ClipRectangle.x2, ClipRectangle.y2)

\* A line that leaves the tile by one unit, to (4, -1), and comes back: it was cut
\* there, and the line of its Symbol Instance is the first vertex alone
C20_Witness ==
    /\ layout.symbolPlacement = "line"
    /\ Len(features) = 1
    /\ features[1].text = Some("A")
    /\ features[1].geometry = <<Reentering>>
    /\ AnchorsOf(0) = <<Reentering[1]>>
    /\ bucket.lineVertexArray = <<Reentering[1]>>
    /\ Len(bucket.textPlacedSymbolArray) = 1
    /\ bucket.textPlacedSymbolArray[1].lineLength = 1

-----------------------------------------------------------------------------
(* Properties of the icons of a bucket *)

\* The features whose icon is an image of the style, in input order
FeaturesWithImage == SelectSeq(features, HasImage)

MixWarning == "Cannot mix SDF and non-SDF icons in one buffer"

\* C21: bucket.sdfIcons is the kind of the image of the first feature whose icon
\* image is found, whatever the later features; a later feature with an image of
\* the other kind raises the warning, nothing else does, and every feature still
\* has its Symbol Instances
C21_FirstIconDecides ==
    /\ bucket.sdfIcons = IF Len(FeaturesWithImage) = 0 THEN Undefined
                         ELSE Some(ImageIsSdf(Val(FeaturesWithImage[1].icon)))
    /\ (MixWarning \in bucket.warnings) <=>
          \E k \in 1..Len(FeaturesWithImage) :
              ImageIsSdf(Val(FeaturesWithImage[k].icon)) # ImageIsSdf(Val(FeaturesWithImage[1].icon))
    /\ ~bucket.threw
    /\ \A i \in 1..Len(features) :
          HasShaping(features[i]) => AnchorsOf(features[i].index) = AcceptedCandidates(features[i])

\* An image that is no SDF, then an SDF image on two points: sdfIcons stays
\* false, the warning was raised, and the second feature has its two instances
C21_Witness ==
    /\ Len(features) = 2
    /\ features[1].icon = Some("img") /\ features[2].icon = Some("sdf")
    /\ features[2].geometry = <<Prefix(2)>>
    /\ bucket.sdfIcons = Some(FALSE)
    /\ MixWarning \in bucket.warnings
    /\ Len(AnchorsOf(1)) = 2

-----------------------------------------------------------------------------
(* Properties of evaluateVariableOffset *)

\* The side of the anchor: 1 for the left, -1 for the right; 1 for the top, -1
\* for the bottom
SignX(anchor) ==
    IF anchor \in {"left", "top-left", "bottom-left"} THEN 1
    ELSE IF anchor \in {"right", "top-right", "bottom-right"} THEN -1 ELSE 0

SignY(anchor) ==
    IF anchor \in {"top", "top-left", "top-right"} THEN 1
    ELSE IF anchor \in {"bottom", "bottom-left", "bottom-right"} THEN -1 ELSE 0

Abs(n) == IF n < 0 THEN -n ELSE n

\* The offset of a radial offset r: r on the one axis of an edge anchor, r / sqrt2
\* on both axes of a corner anchor, less the baseline offset on the y axis
RadialOffsetOf(anchor, r) ==
    LET r0 == IF r < 0 THEN 0 ELSE r
        corner == SignX(anchor) # 0 /\ SignY(anchor) # 0
    IN  IF corner
        THEN <<Num(0, SignX(anchor) * r0), Num(-SignY(anchor) * baselineOffset, SignY(anchor) * r0)>>
        ELSE <<Num(SignX(anchor) * r0, 0), Num(SignY(anchor) * (r0 - baselineOffset), 0)>>

\* C22: evaluateVariableOffset with a radial offset r treats a negative r as 0,
\* gives (0, 0) for 'center', r on the one axis of an edge anchor and r / sqrt2 on
\* both axes of a corner anchor, with the baseline offset 7 on the y axis; with a
\* literal offset it uses |x| and |y| with the same signs; performSymbolLayout uses
\* the radial form for a fixed anchor exactly when text-radial-offset is not zero
C22_VariableOffset ==
    /\ (pc = "returned" /\ callRet.name = "evaluateVariableOffset") =>
          callRet.value =
              IF callArgs.offset[2] = INVALID_TEXT_OFFSET
              THEN RadialOffsetOf(callArgs.anchor, callArgs.offset[1])
              ELSE <<Num(SignX(callArgs.anchor) * Abs(callArgs.offset[1]), 0),
                     Num(SignY(callArgs.anchor) * (Abs(callArgs.offset[2]) - baselineOffset), 0)>>
    /\ (pc = "returned" /\ callRet.name = "textOffset") =>
          callRet.value =
              IF callArgs.radialOffset # 0
              THEN RadialOffsetOf(callArgs.anchor, callArgs.radialOffset * ONE_EM)
              ELSE <<Num(callArgs.textOffset[1] * ONE_EM, 0),
                     Num(callArgs.textOffset[2] * ONE_EM, 0)>>

\* A negative radial offset at a corner anchor: the offset is the baseline offset
\* alone
C22_Witness ==
    /\ pc = "returned"
    /\ callRet.name = "evaluateVariableOffset"
    /\ callArgs.anchor = "bottom-right"
    /\ callArgs.offset = <<-ONE_EM, INVALID_TEXT_OFFSET>>
    /\ callRet.value = <<Num(0, 0), Num(baselineOffset, 0)>>

-----------------------------------------------------------------------------
(* Properties of the order of the Symbol Instances *)

\* Whether s is t with some elements left out
RECURSIVE IsSubsequence(_, _)
IsSubsequence(s, t) ==
    IF s = <<>> THEN TRUE
    ELSE IF t = <<>> THEN FALSE
    ELSE IF Head(s) = Head(t) THEN IsSubsequence(Tail(s), Tail(t))
    ELSE IsSubsequence(s, Tail(t))

\* The anchors of the Symbol Instances of the feature at the index, in the order
\* of bucket.symbolInstances
InstanceAnchorsOf(featureIndex) ==
    LET own == SelectSeq(bucket.symbolInstances, LAMBDA si : si.featureIndex = featureIndex)
    IN  [k \in 1..Len(own) |-> Pt(own[k].anchorX, own[k].anchorY)]

\* The anchors addFeature generates for the feature, in generation order
GeneratedAnchorsOf(f) ==
    LET cands == Candidates(f, layout.symbolPlacement)
    IN  [k \in 1..Len(cands) |-> cands[k].anchor]

\* The anchors generated for the features with the text, in the order of
\* bucket.features and, within a feature, in generation order
GeneratedAnchorsWithText(text) ==
    Flatten([i \in 1..Len(features) |->
        IF features[i].text = Some(text) THEN GeneratedAnchorsOf(features[i]) ELSE <<>>])

\* Every anchor of all that is not in kept is within symbolMinDistance / 2 of an
\* anchor of kept that was generated before it
RejectedByEarlier(all, kept) ==
    \A n \in 1..Len(all) :
        (\A k \in 1..Len(kept) : kept[k] # all[n]) =>
            \E m \in 1..(n - 1) :
                /\ \E k \in 1..Len(kept) : kept[k] = all[m]
                /\ DistLessThanHalf(all[m], all[n],
                       tilePixelRatioForSymbolSpacing(bucket.overscaling, bucket.zoom)
                           * layout.symbolSpacing)

\* C23: the Symbol Instances are in processing order. The feature indices never
\* decrease along bucket.symbolInstances; the anchors of the instances of a
\* feature are in the order in which addFeature generated them; and under
\* placement 'line' the anchors the registry keeps for a text are in generation
\* order, and an anchor that is not kept is too close to a kept anchor that was
\* generated before it: of two anchors too close to each other the earlier is kept
C23_ProcessingOrder ==
    /\ \A i, j \in 1..Len(bucket.symbolInstances) :
          i < j => bucket.symbolInstances[i].featureIndex <= bucket.symbolInstances[j].featureIndex
    /\ \A i \in 1..Len(features) :
          LET generated == GeneratedAnchorsOf(features[i])
          IN  IsSubsequence(InstanceAnchorsOf(i - 1),
                            [k \in 1..Len(generated) |-> Pt(generated[k].x, generated[k].y)])
    /\ layout.symbolPlacement = "line" =>
          \A e \in 1..Len(bucket.compareText) :
              LET all == GeneratedAnchorsWithText(bucket.compareText[e].key)
              IN  /\ IsSubsequence(bucket.compareText[e].value, all)
                  /\ RejectedByEarlier(all, bucket.compareText[e].value)

\* Two features with the same text under placement 'line': of the three anchors
\* of the first the second is rejected for the first, and of the two anchors of
\* the second feature both are rejected for those of the first feature
C23_Witness ==
    /\ layout.symbolPlacement = "line"
    /\ Len(features) = 2
    /\ features[1].text = Some("A") /\ features[2].text = Some("A")
    /\ features[1].geometry = <<Prefix(3)>>
    /\ features[2].geometry = <<Prefix(2)>>
    /\ Len(GeneratedAnchorsOf(features[1])) = 3
    /\ Len(bucket.symbolInstances) = 2
    /\ bucket.symbolInstances[1].featureIndex = 0
    /\ bucket.symbolInstances[2].featureIndex = 0
    /\ bucket.symbolInstances[1].anchorX < bucket.symbolInstances[2].anchorX

-----------------------------------------------------------------------------
(* Properties of a bucket that is built again *)

\* C24: the registry lives for one build. When a build of a bucket begins, also
\* one after an earlier build of the same bucket, bucket.compareText and the
\* arrays are empty; during the build an anchor is rejected only for an anchor
\* registered before it in the same build; and a build after the first, on the
\* same bucket.features, ends with the same Symbol Instances and the same registry
C24_RegistryOfOneBuild ==
    pc = "layout" =>
        /\ features = <<>> =>
              /\ bucket.compareText = <<>>
              /\ bucket.symbolInstances = <<>> /\ bucket.collisionBoxArray = <<>>
              /\ bucket.lineVertexArray = <<>>
              /\ bucket.textPlacedSymbolArray = <<>> /\ bucket.iconPlacedSymbolArray = <<>>
        /\ layout.symbolPlacement = "line" =>
              \A e \in 1..Len(bucket.compareText) :
                  RejectedByEarlier(GeneratedAnchorsWithText(bucket.compareText[e].key),
                                    bucket.compareText[e].value)
        /\ (callRet.builds > 0 /\ Len(features) = Len(callRet.features)) =>
              /\ features = callRet.features
              /\ bucket.symbolInstances = callRet.symbolInstances
              /\ bucket.compareText = callRet.compareText

\* The second build of a bucket under placement 'line', on the feature of the
\* first build: the registry of the first build held the anchors of the feature,
\* and the second build has a Symbol Instance for them again
C24_Witness ==
    /\ pc = "layout"
    /\ layout.symbolPlacement = "line"
    /\ callRet.builds = 1
    /\ callRet.compareText # <<>>
    /\ Len(features) = 1
    /\ features = callRet.features
    /\ features[1].text = Some("A")
    /\ Len(bucket.symbolInstances) > 0
    /\ bucket.symbolInstances = callRet.symbolInstances

-----------------------------------------------------------------------------
(* Properties of the collision box store *)

\* The i-th Symbol Instance refers to the box with the index by one of its ranges
RefersToBox(i, index) ==
    LET s == bucket.symbolInstances[i]
    IN  \/ s.textBoxStartIndex <= index /\ index < s.textBoxEndIndex
        \/ s.verticalTextBoxStartIndex <= index /\ index < s.verticalTextBoxEndIndex
        \/ s.iconBoxStartIndex <= index /\ index < s.iconBoxEndIndex
        \/ s.verticalIconBoxStartIndex <= index /\ index < s.verticalIconBoxEndIndex

\* C25: no orphan boxes. After addSymbol has written the Symbol Instance of an
\* anchor, every box of bucket.collisionBoxArray lies in a range of an instance
\* written for the anchor of the box, and an instance has at most one box in the
\* store for each of its four categories, so at most four boxes for its anchor
C25_NoOrphanBoxes ==
    ~bucket.threw =>
        /\ \A index \in 0..(Len(bucket.collisionBoxArray) - 1) :
              \E i \in 1..Len(bucket.symbolInstances) :
                  /\ RefersToBox(i, index)
                  /\ IsBoxOf(bucket.symbolInstances[i], index)
        /\ Len(bucket.collisionBoxArray) <= 4 * Len(bucket.symbolInstances)

\* The first anchor of a bucket, for a text of two lines in a layer that asks for
\* the justifications left and right: two text boxes are in the store, and the
\* instance refers to the second
C25_Witness ==
    /\ layout.textVariableAnchor = <<"left", "right">>
    /\ Len(features) = 1
    /\ features[1].text = Some("M")
    /\ features[1].icon = Undefined
    /\ Len(bucket.symbolInstances) = 1
    /\ Len(bucket.collisionBoxArray) = 2
    /\ bucket.symbolInstances[1].textBoxStartIndex = 1
    /\ bucket.symbolInstances[1].textBoxEndIndex = 2
    /\ ~RefersToBox(1, 0)

-----------------------------------------------------------------------------
(* Properties of the argument of evaluateCircleCollisionFeature *)

\* C26: evaluateCircleCollisionFeature leaves its argument as it found it: top,
\* bottom and collisionPadding of the shaping are the same after the call as
\* before it, so that a second call on the shaping returns what the first returned
C26_ShapingUnchanged ==
    (pc = "returned" /\ callRet.name = "evaluateCircleCollisionFeature") =>
        /\ callRet.shaped.top = callArgs.shaped.top
        /\ callRet.shaped.bottom = callArgs.shaped.bottom
        /\ callRet.shaped.collisionPadding = callArgs.shaped.collisionPadding
        /\ evaluateCircleCollisionFeature(callRet.shaped) = callRet.value

\* A shaping of height 12 with the collision padding [1, 2, 1, 3]: the call
\* returned 17 and left the shaping 5 higher, and a second call would return 22
C26_Witness ==
    /\ pc = "returned"
    /\ callRet.name = "evaluateCircleCollisionFeature"
    /\ callArgs.shaped = [top |-> -6, bottom |-> 6, collisionPadding |-> <<1, 2, 1, 3>>]
    /\ callRet.value = Some(17)
    /\ callRet.shaped = [top |-> -8, bottom |-> 9, collisionPadding |-> <<1, 2, 1, 3>>]
    /\ evaluateCircleCollisionFeature(callRet.shaped) = Some(22)

-----------------------------------------------------------------------------
(* Properties of the placed text indices of a Symbol Instance *)

\* The placed text index the Symbol Instance holds for a placement type
PlacedTextIndexOf(s, placementType) ==
    CASE placementType = "right" -> s.rightJustifiedTextSymbolIndex
      [] placementType = "center" -> s.centerJustifiedTextSymbolIndex
      [] placementType = "left" -> s.leftJustifiedTextSymbolIndex
      [] placementType = "vertical" -> s.verticalPlacedTextSymbolIndex

\* The index is that of a text placed symbol of the anchor of the instance
IsTextOf(s, index, vertical) ==
    /\ 0 <= index /\ index < Len(bucket.textPlacedSymbolArray)
    /\ bucket.textPlacedSymbolArray[index + 1].anchorX = s.anchorX
    /\ bucket.textPlacedSymbolArray[index + 1].anchorY = s.anchorY
    /\ bucket.textPlacedSymbolArray[index + 1].featureIndex = s.featureIndex
    /\ bucket.textPlacedSymbolArray[index + 1].vertical = vertical

\* The Symbol Instances and the horizontal text placed symbols of the feature
\* processed last
InstancesOfLast == SelectSeq(bucket.symbolInstances, LAMBDA s : s.featureIndex = Len(features) - 1)

HorizontalTextsOfLast ==
    SelectSeq(bucket.textPlacedSymbolArray,
              LAMBDA p : p.featureIndex = Len(features) - 1 /\ ~p.vertical)

\* C27: each placed text index of a Symbol Instance is -1 or the index of a text
\* placed symbol of the anchor of the instance; for the feature processed last,
\* every key of shapedTextOrientations.horizontal has an index >= 0 in each of
\* its instances, and when the first horizontal shaping is a single line the keys
\* share one index and one horizontal text placed symbol was written per instance
C27_PlacedTextIndices ==
    /\ \A i \in 1..Len(bucket.symbolInstances) :
          \A t \in {"right", "center", "left", "vertical"} :
              \/ PlacedTextIndexOf(bucket.symbolInstances[i], t) = -1
              \/ IsTextOf(bucket.symbolInstances[i],
                          PlacedTextIndexOf(bucket.symbolInstances[i], t), t = "vertical")
    /\ \A i \in 1..Len(InstancesOfLast) :
          \A k \in 1..Len(shapedTextOrientations.horizontal) :
              /\ PlacedTextIndexOf(InstancesOfLast[i], shapedTextOrientations.horizontal[k].key) >= 0
              /\ Val(shapedTextOrientations.horizontal[1].value).positionedLines = 1 =>
                    PlacedTextIndexOf(InstancesOfLast[i], shapedTextOrientations.horizontal[k].key)
                        = PlacedTextIndexOf(InstancesOfLast[i], shapedTextOrientations.horizontal[1].key)
    /\ (/\ Len(features) > 0
        /\ Len(shapedTextOrientations.horizontal) > 0
        /\ Val(shapedTextOrientations.horizontal[1].value).positionedLines = 1) =>
          Len(HorizontalTextsOfLast) = Len(InstancesOfLast)

\* A text of one line in a layer that asks for three justifications: one text
\* placed symbol, and the three indices of the instance are its index
C27_Witness ==
    /\ layout.textVariableAnchor = <<"center", "top-left", "right">>
    /\ Len(features) = 1
    /\ features[1].text = Some("A")
    /\ Keys(shapedTextOrientations.horizontal) = <<"center", "left", "right">>
    /\ Len(bucket.symbolInstances) = 1
    /\ Len(bucket.textPlacedSymbolArray) = 1
    /\ bucket.symbolInstances[1].centerJustifiedTextSymbolIndex = 0
    /\ bucket.symbolInstances[1].leftJustifiedTextSymbolIndex = 0
    /\ bucket.symbolInstances[1].rightJustifiedTextSymbolIndex = 0
    /\ bucket.symbolInstances[1].verticalPlacedTextSymbolIndex = -1

-----------------------------------------------------------------------------
(* VectorTileSource.loadTile: the loads of one tile and their callbacks        *)

\* The number of loadTile calls for the tile
MaxCalls == 3

\* The symbol layout is not at work
LayoutIdle ==
    /\ pc = "idle"
    /\ layout = BaseLayout
    /\ bucket = NewBucket(FALSE)
    /\ features = <<>>
    /\ shapedTextOrientations = [horizontal |-> <<>>, vertical |-> Undefined]
    /\ shapeTextCalls = 0
    /\ callArgs = NoCall
    /\ callRet = NoCall

\* A tile as the source cache hands it to the first loadTile, with the map's
\* _refreshExpiredTiles; loadVectorData and setExpiryData count the calls
NewTile(refreshExpiredTiles) ==
    [state |-> "loading", actor |-> FALSE, request |-> Undefined, aborted |-> FALSE,
     reloadCallback |-> Null, loadVectorData |-> 0, setExpiryData |-> 0,
     refreshExpiredTiles |-> refreshExpiredTiles]

\* A callback that was passed to loadTile and not invoked yet; aborted tells
\* whether the tile was aborted when the response of the request arrived
NewCallback ==
    [invoked |-> 0, err |-> FALSE, aborted |-> FALSE, loadVectorData |-> FALSE,
     setExpiryData |-> FALSE, reloaded |-> Null]

\* loadTile(tile, callback), with dispatcher.ready: st holds the tile, the
\* requests under way and the callbacks
loadTile(st, callback, ready) ==
    IF ~st.tile.actor \/ st.tile.state = "expired"
    THEN [st EXCEPT !.tile.actor = TRUE,
                    !.tile.request = Some(callback),
                    !.messages = @ \cup {[type |-> IF ready THEN "loadTile" ELSE "loadVectorTile",
                                          callback |-> callback]}]
    ELSE IF st.tile.state = "loading"
    THEN [st EXCEPT !.tile.reloadCallback = Some(callback)]
    ELSE [st EXCEPT !.tile.request = Some(callback),
                    !.messages = @ \cup {[type |-> "reloadTile", callback |-> callback]}]

\* The end of done for a tile that was not aborted and a response without error:
\* the data is applied, the callback invoked, a scheduled reload started
DoneLoaded(st, callback, outcome) ==
    LET expiry == st.tile.refreshExpiredTiles /\ outcome = "data"
        loaded == [st EXCEPT
                     !.tile.setExpiryData = @ + (IF expiry THEN 1 ELSE 0),
                     !.tile.loadVectorData = @ + 1,
                     !.tile.state = "loaded",
                     !.callbacks[callback] =
                         [@ EXCEPT !.invoked = @ + 1, !.loadVectorData = TRUE,
                                   !.setExpiryData = expiry,
                                   !.reloaded = st.tile.reloadCallback]]
    IN  IF loaded.tile.reloadCallback # Null
        THEN [loadTile(loaded, Val(loaded.tile.reloadCallback), TRUE) EXCEPT
                 !.tile.reloadCallback = Null]
        ELSE loaded

\* done(err, data) of the loadTile call with the callback; outcome is "error" for
\* an error other than 404, "noData" for a 404 or a response without data, "data"
\* otherwise. The callback of the source cache marks the tile 'errored' on an error
done(st, callback, outcome) ==
    IF st.tile.aborted
    THEN [st EXCEPT !.tile.request = Undefined,
                    !.callbacks[callback] = [@ EXCEPT !.invoked = @ + 1]]
    ELSE IF outcome = "error"
    THEN [st EXCEPT !.tile.request = Undefined,
                    !.tile.state = "errored",
                    !.callbacks[callback] = [@ EXCEPT !.invoked = @ + 1, !.err = TRUE]]
    ELSE DoneLoaded([st EXCEPT !.tile.request = Undefined], callback, outcome)

\* The response of loadVectorTile on the main thread, while the workers were not
\* ready: without data done is called, with data the worker is sent 'loadTile'
LoadedOnMainThread(st, callback, outcome) ==
    IF outcome # "data" THEN done(st, callback, outcome)
    ELSE IF st.tile.actor
    THEN [st EXCEPT !.messages = @ \cup {[type |-> "loadTile", callback |-> callback]}]
    ELSE st

\* abortTile(tile): the request of the tile is cancelled; its response is
\* dropped when the cancellation reaches it in time
abortTile(st, inTime) ==
    IF st.tile.request # Undefined
    THEN [st EXCEPT !.tile.request = Undefined,
                    !.messages = IF inTime
                                 THEN { m \in @ : m.callback # Val(st.tile.request) }
                                 ELSE @]
    ELSE st

SourceState == [tile |-> tile, messages |-> messages, callbacks |-> callbacks]

SourceBecomes(st) ==
    /\ tile' = st.tile
    /\ messages' = st.messages
    /\ callbacks' = st.callbacks

InitVectorTile ==
    /\ LayoutIdle
    /\ tile \in { NewTile(refreshExpiredTiles) : refreshExpiredTiles \in BOOLEAN }
    /\ messages = {}
    /\ callbacks = <<>>
    /\ worker = NoWorker
    /\ cache = NoCache

\* The source cache calls loadTile with a new callback: a tile that is not
\* 'loading' is marked 'reloading' or 'expired' first
LoadTile ==
    /\ tile # NoTile
    /\ ~tile.aborted
    /\ Len(callbacks) + Len(worker.loads) < MaxCalls
    /\ \E state \in (IF tile.state = "loading" THEN {"loading"} ELSE {"reloading", "expired"}) :
         \E ready \in BOOLEAN :
             SourceBecomes(loadTile([SourceState EXCEPT !.tile.state = state,
                                                        !.callbacks = Append(@, NewCallback)],
                                    Len(callbacks) + 1, ready))
    /\ UNCHANGED <<worker, cache>>
    /\ UNCHANGED layoutVars

\* The requests and callbacks when the response to the request m arrives
Arrived(m) ==
    [SourceState EXCEPT !.messages = @ \ {m}, !.callbacks[m.callback].aborted = tile.aborted]

\* The response to a request arrives
Deliver ==
    /\ \E m \in messages :
         \E outcome \in {"error", "noData", "data"} :
             SourceBecomes(
                 IF m.type = "loadVectorTile"
                 THEN LoadedOnMainThread(Arrived(m), m.callback, outcome)
                 ELSE done(Arrived(m), m.callback, outcome))
    /\ UNCHANGED <<worker, cache>>
    /\ UNCHANGED layoutVars

\* The source cache aborts the tile: it sets tile.aborted and calls abortTile
AbortTile ==
    /\ tile # NoTile
    /\ ~tile.aborted
    /\ \E inTime \in BOOLEAN :
         SourceBecomes(abortTile([SourceState EXCEPT !.tile.aborted = TRUE], inTime))
    /\ UNCHANGED <<worker, cache>>
    /\ UNCHANGED layoutVars

NextVectorTile == LoadTile \/ Deliver \/ AbortTile

\* Every response is delivered in the end
SpecVectorTileFair == InitVectorTile /\ [][NextVectorTile]_vars /\ WF_vars(Deliver)

-----------------------------------------------------------------------------
(* Properties of the callbacks of VectorTileSource.loadTile *)

\* C28: every callback passed to loadTile is invoked in the end, and none more
\* than once, when every response is delivered; a callback passed while the tile
\* was 'loading' among them. Tiles that are aborted and loads that end with an
\* error are left aside: the callback is invoked, or the tile is aborted or
\* 'errored'
C28_EveryCallbackInvoked ==
    /\ [](\A c \in 1..Len(callbacks) : callbacks[c].invoked <= 1)
    /\ \A c \in 1..MaxCalls :
          (Len(callbacks) >= c) ~>
              (\/ Len(callbacks) >= c /\ callbacks[c].invoked = 1
               \/ tile.aborted
               \/ tile.state = "errored")

\* loadTile was called twice while the first load was under way: the first and
\* the third callback were invoked, no request is under way and no reload is
\* scheduled, and the second callback was not invoked
C28_Witness ==
    /\ Len(callbacks) = 3
    /\ ~tile.aborted
    /\ tile.state = "loaded"
    /\ tile.loadVectorData = 2
    /\ messages = {}
    /\ tile.reloadCallback = Null
    /\ callbacks[1].invoked = 1 /\ callbacks[1].reloaded = Some(3)
    /\ callbacks[2].invoked = 0
    /\ callbacks[3].invoked = 1

-----------------------------------------------------------------------------
(* RasterTileWorkerSource: the loads of one tile key                           *)

\* A loadTile call of the worker source: the object of this.loading it holds, and
\* what became of its callback; aborted tells whether abortTile was called while
\* the load was under way
NewLoad(loading) ==
    [loading |-> loading, pending |-> TRUE, aborted |-> FALSE, invoked |-> 0, result |-> "none"]

\* The callback loadTile hands to loadRasterTile, for the load n: callback(null)
\* for an object that is 'unloaded', callback(error, result) otherwise
LoadCompleted(w, n, status, outcome) ==
    IF status = "unloaded"
    THEN [w EXCEPT !.loads[n] = [@ EXCEPT !.pending = FALSE, !.invoked = @ + 1, !.result = "null"]]
    ELSE [w EXCEPT !.objects[w.loads[n].loading].request = Undefined,
                   !.loads[n] = [@ EXCEPT !.pending = FALSE, !.invoked = @ + 1, !.result = outcome]]

\* A faulty callback: it looks up this.loading[key] again
completeByKey(w, n, outcome) ==
    LoadCompleted(w, n,
        IF w.loading # Undefined THEN w.objects[Val(w.loading)].status ELSE "unloaded",
        outcome)

\* The callback of the load n looks at the object it was started with
complete(w, n, outcome) ==
    LoadCompleted(w, n, w.objects[w.loads[n].loading].status, outcome)

\* RasterTileWorkerSource.loadTile: the object of this.loading[key] is kept if
\* there is one; loadRasterTile without requests calls back before it returns
workerLoadTile(w, synchronous) ==
    LET known == w.loading # Undefined
        ref == IF known THEN Val(w.loading) ELSE Len(w.objects) + 1
        objects == IF known THEN w.objects
                   ELSE Append(w.objects, [status |-> "loading", request |-> Undefined])
        n == Len(w.loads) + 1
        started == [w EXCEPT !.loading = Some(ref), !.objects = objects,
                             !.loads = Append(@, NewLoad(ref))]
        called == IF synchronous THEN complete(started, n, "error") ELSE started
    IN  [called EXCEPT !.objects[ref].request = Some(n)]

\* The loads that are under way are those abortTile aborts
AbortedLoads(loads) ==
    [n \in 1..Len(loads) |-> IF loads[n].pending THEN [loads[n] EXCEPT !.aborted = TRUE]
                             ELSE loads[n]]

\* RasterTileWorkerSource.abortTile: the request of the object is cancelled; its
\* callback is not called when the cancellation reaches it in time
workerAbortTile(w, inTime) ==
    IF w.loading = Undefined THEN w
    ELSE LET ref == Val(w.loading)
             request == w.objects[ref].request
         IN  [w EXCEPT !.objects[ref].status = "unloaded",
                       !.loading = Undefined,
                       !.loads = IF request # Undefined /\ inTime
                                 THEN [@ EXCEPT ![Val(request)].pending = FALSE]
                                 ELSE @]

InitAbort ==
    /\ LayoutIdle
    /\ tile \in { NewTile(refreshExpiredTiles) : refreshExpiredTiles \in BOOLEAN }
    /\ messages = {}
    /\ callbacks = <<>>
    /\ worker = NoWorker
    /\ cache = NoCache

WorkerLoadTile ==
    /\ Len(callbacks) + Len(worker.loads) < MaxCalls
    /\ \E synchronous \in BOOLEAN : worker' = workerLoadTile(worker, synchronous)
    /\ UNCHANGED <<tile, messages, callbacks, cache>>
    /\ UNCHANGED layoutVars

\* loadRasterTile calls back for a load that is under way
WorkerComplete ==
    /\ \E n \in 1..Len(worker.loads) :
         /\ worker.loads[n].pending
         /\ \E outcome \in {"error", "result"} : worker' = complete(worker, n, outcome)
    /\ UNCHANGED <<tile, messages, callbacks, cache>>
    /\ UNCHANGED layoutVars

WorkerAbortTile ==
    /\ \E inTime \in BOOLEAN :
         worker' = workerAbortTile([worker EXCEPT !.loads = AbortedLoads(@)], inTime)
    /\ UNCHANGED <<tile, messages, callbacks, cache>>
    /\ UNCHANGED layoutVars

NextAbort ==
    \/ LoadTile
    \/ Deliver
    \/ AbortTile
    \/ WorkerLoadTile
    \/ WorkerComplete
    \/ WorkerAbortTile

SpecAbort == InitAbort /\ [][NextAbort]_vars

-----------------------------------------------------------------------------
(* Properties of a load that completes after its tile was aborted *)

\* C29: a completion after the abort applies no tile data. In VectorTileSource a
\* response that arrives for an aborted tile has its callback invoked once,
\* without an error, without tile.loadVectorData or setExpiryData and without a
\* reload started. In RasterTileWorkerSource the callback of a load that was
\* aborted is invoked with null, whatever loads were started after the abort, and
\* a load that was not aborted is called back with its error or result
C29_NoDataAfterAbort ==
    /\ \A c \in 1..Len(callbacks) :
          (callbacks[c].aborted /\ callbacks[c].invoked > 0) =>
              /\ callbacks[c].invoked = 1
              /\ ~callbacks[c].err
              /\ ~callbacks[c].loadVectorData
              /\ ~callbacks[c].setExpiryData
              /\ callbacks[c].reloaded = Null
    /\ \A n \in 1..Len(worker.loads) :
          worker.loads[n].invoked > 0 =>
              /\ worker.loads[n].invoked = 1
              /\ worker.loads[n].aborted => worker.loads[n].result = "null"
              /\ ~worker.loads[n].aborted => worker.loads[n].result \in {"error", "result"}

\* A worker load was aborted, a second load of the key was started and is under
\* way, and then the first completed: its callback got null. A response arrived
\* for the aborted tile of the vector source while a reload was scheduled.
C29_Witness ==
    /\ Len(worker.loads) = 2
    /\ worker.loads[1].aborted /\ worker.loads[1].invoked = 1 /\ worker.loads[1].result = "null"
    /\ worker.loads[2].pending /\ ~worker.loads[2].aborted
    /\ worker.loading = Some(2)
    /\ worker.objects[1].status = "unloaded" /\ worker.objects[2].status = "loading"
    /\ Len(callbacks) = 1
    /\ callbacks[1].aborted /\ callbacks[1].invoked = 1
    /\ tile.aborted /\ tile.loadVectorData = 0

-----------------------------------------------------------------------------
(* The tile request cache: cachePut, cacheGet and enforceCacheSizeLimit       *)

\* The number of cacheGet, cachePut and enforceCacheSizeLimit calls
MaxCacheCalls == 2

Urls == {"a", "b", "c"}

\* The limits enforceCacheSizeLimit is called with
Limits == {1, 2}

\* The entries of the Cache without the one of the url: cache.delete(url)
CacheDelete(keys, url) == SelectSeq(keys, LAMBDA e : e.url # url)

\* cache.put(url, response): the entry of the url is replaced by a new last entry
CachePutEntry(keys, url, fresh) == Append(CacheDelete(keys, url), [url |-> url, fresh |-> fresh])

\* cache.match(url): the response of the url, by its freshness, or undefined
CacheMatch(keys, url) ==
    IF \E k \in 1..Len(keys) : keys[k].url = url
    THEN Some((CHOOSE k \in 1..Len(keys) : keys[k].url = url))
    ELSE Undefined

isFresh(keys, response) == response # Undefined /\ keys[Val(response)].fresh

RECURSIVE DeleteAll(_, _, _)
DeleteAll(keys, urls, i) ==
    IF i > Len(urls) THEN keys ELSE DeleteAll(CacheDelete(keys, urls[i]), urls, i + 1)

\* A faulty loop: it deletes the last keys
LastKeys(listed, limit) ==
    IF Len(listed) - limit > 0 THEN SubSeq(listed, limit + 1, Len(listed)) ELSE <<>>

\* The loop of enforceCacheSizeLimit over the keys it was given: keys[0] up to
\* keys[keys.length - limit - 1]
FirstKeys(listed, limit) ==
    IF Len(listed) - limit > 0 THEN SubSeq(listed, 1, Len(listed) - limit) ELSE <<>>

\* A call is under way between its two steps
UnderWay(calls) == \E j \in 1..Len(calls) : calls[j].pc # "done"

\* The calls when another call begins: those under way are overlapped by it
Overlapped(calls) ==
    [j \in 1..Len(calls) |-> IF calls[j].pc # "done" THEN [calls[j] EXCEPT !.overlapped = TRUE]
                             ELSE calls[j]]

\* The caches the calls start from: an entry for every url, fresh or stale
InitialCaches ==
    { <<[url |-> "a", fresh |-> fa], [url |-> "b", fresh |-> fb], [url |-> "c", fresh |-> fc]>> :
        fa \in BOOLEAN, fb \in BOOLEAN, fc \in BOOLEAN }

InitCache ==
    /\ LayoutIdle
    /\ tile = NoTile
    /\ messages = {}
    /\ callbacks = <<>>
    /\ worker = NoWorker
    /\ cache \in { [keys |-> keys, calls |-> <<>>] : keys \in InitialCaches }

\* cachePut of a response that is cached: cache.put
CachePut ==
    /\ Len(cache.calls) < MaxCacheCalls
    /\ \E url \in Urls :
         cache' = [keys |-> CachePutEntry(cache.keys, url, TRUE),
                   calls |-> Append(Overlapped(cache.calls),
                                    [name |-> "cachePut", url |-> url, pc |-> "done",
                                     overlapped |-> UnderWay(cache.calls)])]
    /\ UNCHANGED <<tile, messages, callbacks, worker>>
    /\ UNCHANGED layoutVars

\* cacheGet: cache.match answers
CacheGet ==
    /\ Len(cache.calls) < MaxCacheCalls
    /\ \E url \in Urls :
         cache' = [cache EXCEPT !.calls =
                     Append(Overlapped(@),
                               [name |-> "cacheGet", url |-> url, pc |-> "matched",
                                overlapped |-> UnderWay(cache.calls),
                                found |-> CacheMatch(cache.keys, url) # Undefined,
                                fresh |-> isFresh(cache.keys, CacheMatch(cache.keys, url))])]
    /\ UNCHANGED <<tile, messages, callbacks, worker>>
    /\ UNCHANGED layoutVars

\* cacheGet, the callback of cache.match: the entry is deleted, and put again when
\* the response is fresh; keysAfter is the Cache as the two operations leave it
Matched ==
    /\ \E i \in 1..Len(cache.calls) :
         /\ cache.calls[i].name = "cacheGet"
         /\ cache.calls[i].pc = "matched"
         /\ LET keys == IF cache.calls[i].fresh
                        THEN CachePutEntry(cache.keys, cache.calls[i].url, TRUE)
                        ELSE CacheDelete(cache.keys, cache.calls[i].url)
            IN  cache' = [keys |-> keys,
                          calls |-> [cache.calls EXCEPT ![i] =
                              [name |-> "cacheGet", url |-> @.url, pc |-> "done",
                               overlapped |-> @.overlapped,
                               found |-> @.found, fresh |-> @.fresh, keysAfter |-> keys]]]
    /\ UNCHANGED <<tile, messages, callbacks, worker>>
    /\ UNCHANGED layoutVars

\* enforceCacheSizeLimit(limit): cache.keys() answers
EnforceCacheSizeLimit ==
    /\ Len(cache.calls) < MaxCacheCalls
    /\ \E limit \in Limits :
         cache' = [cache EXCEPT !.calls =
                     Append(Overlapped(@),
                               [name |-> "enforceCacheSizeLimit", limit |-> limit, pc |-> "listed",
                                overlapped |-> UnderWay(cache.calls),
                                listed |-> [k \in 1..Len(cache.keys) |-> cache.keys[k].url]])]
    /\ UNCHANGED <<tile, messages, callbacks, worker>>
    /\ UNCHANGED layoutVars

\* enforceCacheSizeLimit, the callback of cache.keys(): the first keys are
\* deleted; keysBefore and keysAfter are the Cache before and after the deletions
Listed ==
    /\ \E i \in 1..Len(cache.calls) :
         /\ cache.calls[i].name = "enforceCacheSizeLimit"
         /\ cache.calls[i].pc = "listed"
         /\ LET keys == DeleteAll(cache.keys, FirstKeys(cache.calls[i].listed, cache.calls[i].limit), 1)
            IN  cache' = [keys |-> keys,
                          calls |-> [cache.calls EXCEPT ![i] =
                              [name |-> "enforceCacheSizeLimit", limit |-> @.limit, pc |-> "done",
                               overlapped |-> @.overlapped,
                               listed |-> @.listed, keysBefore |-> cache.keys, keysAfter |-> keys]]]
    /\ UNCHANGED <<tile, messages, callbacks, worker>>
    /\ UNCHANGED layoutVars

NextCache ==
    \/ CachePut
    \/ CacheGet
    \/ Matched
    \/ EnforceCacheSizeLimit
    \/ Listed

SpecCache == InitCache /\ [][NextCache]_vars

-----------------------------------------------------------------------------
(* Properties of the tile request cache *)

\* The position of the url among the keys, 0 for a url that is not a key
KeyIndex(keys, url) ==
    IF \E k \in 1..Len(keys) : keys[k].url = url
    THEN CHOOSE k \in 1..Len(keys) : keys[k].url = url
    ELSE 0

\* The order of the keys of the Cache is the order of the last insertion or
\* access of their entries. After a completed cacheGet of a fresh entry the url is
\* the last key, and after one of a stale entry the url is no key
LookupReinserts(call) ==
    /\ call.fresh =>
          /\ call.keysAfter # <<>>
          /\ call.keysAfter[Len(call.keysAfter)].url = call.url
    /\ ~call.fresh => KeyIndex(call.keysAfter, call.url) = 0

\* After a completed enforceCacheSizeLimit(limit) the Cache holds at most limit
\* entries, and every entry it removed came before every entry it kept in the
\* order of the keys
EvictsLeastRecent(call) ==
    /\ Len(call.keysAfter) <= call.limit
    /\ \A r \in 1..Len(call.keysBefore) :
          KeyIndex(call.keysAfter, call.keysBefore[r].url) = 0 =>
              \A k \in 1..Len(call.keysBefore) :
                  KeyIndex(call.keysAfter, call.keysBefore[k].url) # 0 => r < k

=============================================================================
